---- MODULE Spec2Model ----
(***************************************************************************)
(* Model of the gameplay core of twodina: the dialogue engine              *)
(* (src/core/dialogue.rs), the script command queue (src/core/script.rs,   *)
(* src/core/game.rs, src/scene2d.rs) and the movement / interaction        *)
(* systems (src/motion.rs, src/core/collider.rs, src/items.rs).            *)
(***************************************************************************)
EXTENDS Integers, Sequences, FiniteSets, TLC

VARIABLES
    asset,          \* DialogueAsset {nodes, nodes_by_name}
    dialogue,       \* Dialogue {current_index, next_index, next_node_name, is_end}
    lastCall,       \* history: the last call of the dialogue API and what it did
    fault,          \* "none", or how the process died: "panic" / "hang" / "deadlock"
    \* --- script command bridge
    script_commands,        \* SCRIPT_COMMANDS: the Vec inside the Mutex
    lock,                   \* holder of the SCRIPT_COMMANDS mutex, or "free"
    hostPc,                 \* where the host is: "idle", "runonce", "psc"
    pending,                \* what the Drain iterator of process_script_commands still holds
    script_command_events,  \* Events<ScriptCommandEvent> not yet read
    callback,               \* per native callback in flight: [pc, call, todo]
    appended,               \* history: every command pushed, in push order
    delivered,              \* history: every command handed over by a drain, in order
    drains,                 \* history: per drain, what it took and what had been appended
    nested,                 \* history: native calls made from scripts nested in a drain step
    \* --- world
    behaviors,              \* Collider::behaviors per entity
    is_visible,              \* Visible::is_visible per map object
    \* --- characters, colliders in space, item interactions
    dialogue_ui,      \* Game::dialogue_ui: None or Some(DialogueUiType)
    owner_map,        \* Option<Handle<Map>> of each collider entity
    object_name,      \* Object::name of each map object
    despawned,        \* entities whose despawn command has been applied
    position,         \* Transform::translation of each entity, [x, y, z]
    velocity,         \* Character::velocity
    movement_speed,   \* Character::movement_speed
    collision,        \* Character::collision
    interactions,     \* Events<ItemInteraction> not yet read
    framePc,          \* the system that runs next: "input", "move", "items", "trigger"
    frames,           \* frames completed
    preMove,          \* history: the world the last movement step started in
    lastMove,         \* history: per actor, what the last movement step used
    sent,             \* history: the ItemInteractions the last movement step sent
    collects,         \* history: per item, collect triggers evaluated
    removals,         \* history: per item, despawn requests issued
    triggered,        \* history: what the last run of the trigger system read and did
    dispatched,       \* history: the steps of the Collect arms of the last run of items_system
    collider_dialogue, \* per player: DialogueActor.collider_dialogue
    inputLog,         \* history: what the last runs of the two input systems read and did
    app_state,        \* State<AppState>: the current state and the scheduled one
    current_map,      \* Game.current_map, as seen by the level loader
    loaded_maps,      \* Game.loaded_maps
    map_containers,   \* maps for which a MapContainer with ComplicatedLoad was spawned
    to_load,          \* LoadProgress
    levelLoads,       \* history: the behaviors the last run of the level loader visited,
                      \* and the runs of wait_for_asset_loading_system since the last load began
    objects,          \* per map object: what its Object component holds besides the name
    object_ready,     \* ObjectReadyEvents not read yet
    entity_visibility, \* Game.entity_visibility
    components        \* per map object: which of Draw, Collider, Debuggable it has

dialogueVars == <<asset, dialogue, lastCall>>

queueVars ==
    <<script_commands, lock, hostPc, pending, script_command_events, callback,
      appended, delivered, drains, nested>>

worldVars == <<behaviors, is_visible>>
motionVars ==
    <<dialogue_ui, owner_map, object_name, despawned, position, velocity, movement_speed,
      collision, interactions, framePc, frames, preMove, lastMove, sent,
      collects, removals, triggered, dispatched, collider_dialogue, inputLog>>
setupVars == <<objects, object_ready, entity_visibility, components>>
loadVars ==
    <<app_state, current_map, loaded_maps, map_containers, to_load, levelLoads,
      setupVars>>

vars == <<dialogueVars, fault, queueVars, worldVars, motionVars, loadVars>>

\* Option<T>: None is the empty sequence, Some(x) the one-element sequence.
None == <<>>
Some(x) == <<x>>

--------------------------------------------------------------------------
\* Bounds of the dialogue model.
MaxNodes == 3       \* longest node sequence of an asset
MaxIndex == 4       \* advance() is not called once current_index reached this

\* Names a node can carry ("" = unnamed) and names a caller can ask for.
NodeNames == {"Start", "Greet"}
CallNames == NodeNames \cup {"missing"}

\* NodeBody values.  Ruby code of a dialogue node is evaluated by the
\* interpreter bound to the instance.
TextBody(s) == [kind |-> "Text", arg |-> s]
GoToBody(n) == [kind |-> "GoTo", arg |-> n]
EndBody == [kind |-> "End", arg |-> ""]
RubyBody(c) == [kind |-> "Ruby", arg |-> c]
BranchBody == [kind |-> "Branch", arg |-> ""]

DialogueNode(name, body) == [name |-> name, body |-> body]

NodeBodies ==
    {TextBody("Hello"), GoToBody("Greet"), EndBody, RubyBody("ScriptCore.inc"),
     BranchBody}

NodeAlphabet == {DialogueNode(n, b) : n \in NodeNames \cup {""}, b \in NodeBodies}

\* DialogueEvent
TextEvent(s) == [type |-> "Text", text |-> s]
EndEvent == [type |-> "End", text |-> ""]

--------------------------------------------------------------------------
\* DialogueAsset::init: insert every named node in index order into a
\* HashMap; a later insert of the same key replaces the earlier one.
RECURSIVE InsertNames(_, _, _)
InsertNames(nodes, i, map) ==
    IF i >= Len(nodes) THEN map
    ELSE LET node == nodes[i + 1]
         IN  IF node.name = ""
             THEN InsertNames(nodes, i + 1, map)
             ELSE InsertNames(nodes, i + 1,
                      [n \in DOMAIN map \cup {node.name} |->
                          IF n = node.name THEN i ELSE map[n]])

DialogueAssetInit(nodes) ==
    [nodes |-> nodes, nodes_by_name |-> InsertNames(nodes, 0, <<>>)]

\* DialoguePlaceholder::default, copied by Dialogue::new.
DialogueDefault ==
    [current_index |-> 0, next_index |-> None, next_node_name |-> None,
     is_end |-> TRUE]

in_progress(d) == ~d.is_end

has_node(a, name) == name \in DOMAIN a.nodes_by_name

\* Result of a call: the instance afterwards, the DialogueEvents sent, the
\* scripts evaluated (node index and code), and how the call ended ("ok",
\* "panic", "hang").
CallResult(d, events, scripts, outcome) ==
    [d |-> d, events |-> events, scripts |-> scripts, outcome |-> outcome]

\* Ruby source that does not parse, and Ruby source that raises when run.
ParseErrorCode == "1 +"
RuntimeErrorCode == "raise 'boom'"

\* Result<Value, Error> of an evaluation.
Ok == [ok |-> TRUE, error |-> ""]
Err(e) == [ok |-> FALSE, error |-> e]

\* Interpreter::eval of the interpreter bound to the instance.
InterpreterEval(code) ==
    IF code = ParseErrorCode THEN Err("parse")
    ELSE IF code = RuntimeErrorCode THEN Err("runtime")
    ELSE Ok

\* The arms of the match in Dialogue::execute.  An arm that stops the loop
\* gives the call's result; an arm that continues gives the instance the
\* next iteration starts from.

\* Mutant: a Branch node that stops the loop and waits, like a Text node
\* without an event.
MutBranchArmWaits(d, events, scripts) == CallResult(d, events, scripts, "ok")

\* NodeBody::Branch: not implemented, panics.
BranchArm(d, events, scripts) == CallResult(d, events, scripts, "panic")

\* Mutant: End that sends its event without ending the instance.
MutEndArmStaysInProgress(d, events, scripts) ==
    CallResult(d, Append(events, EndEvent), scripts, "ok")

\* NodeBody::End
EndArm(d, events, scripts) ==
    CallResult([d EXCEPT !.is_end = TRUE, !.next_index = None],
               Append(events, EndEvent), scripts, "ok")

\* Mutant: a Text node that sends its event twice.
MutTextArmSendsTwice(d, events, scripts, s) ==
    CallResult(d, Append(Append(events, TextEvent(s)), TextEvent(s)), scripts, "ok")

\* NodeBody::Text
TextArm(d, events, scripts, s) ==
    CallResult(d, Append(events, TextEvent(s)), scripts, "ok")

\* NodeBody::GoTo with a name the asset has: jump to the named node.
GoToArm(a, d, name) == [d EXCEPT !.current_index = a.nodes_by_name[name]]

\* Mutant: a script node that steps over the node that follows it.
MutRubyArmSkipsNode(d, result) ==
    [d EXCEPT !.current_index = d.current_index + 2]

\* NodeBody::Ruby, after the evaluation: the result is printed and not
\* looked at; step to the next index.
RubyArm(d, result) == [d EXCEPT !.current_index = d.current_index + 1]

\* The loop of Dialogue::execute.  `seen` holds the indices the loop already
\* continued from: the loop state is the index alone, so coming back to one
\* of them means the loop never ends.
RECURSIVE ExecuteLoop(_, _, _, _, _)
ExecuteLoop(a, d, events, scripts, seen) ==
    IF d.current_index >= Len(a.nodes)
    THEN \* Advanced past the end of all nodes.
         CallResult(d, events, scripts, "ok")
    ELSE
    LET body == a.nodes[d.current_index + 1].body IN
    CASE body.kind = "Branch" -> BranchArm(d, events, scripts)
      [] body.kind = "End" -> EndArm(d, events, scripts)
      [] body.kind = "GoTo" ->
            IF ~has_node(a, body.arg)
            THEN CallResult(d, events, scripts, "panic")
            ELSE IF d.current_index \in seen
            THEN CallResult(d, events, scripts, "hang")
            ELSE ExecuteLoop(a, GoToArm(a, d, body.arg), events, scripts,
                             seen \cup {d.current_index})
      [] body.kind = "Ruby" ->
            IF d.current_index \in seen
            THEN CallResult(d, events, scripts, "hang")
            ELSE ExecuteLoop(a, RubyArm(d, InterpreterEval(body.arg)), events,
                     Append(scripts, [index |-> d.current_index, code |-> body.arg]),
                     seen \cup {d.current_index})
      [] body.kind = "Text" -> TextArm(d, events, scripts, body.arg)

\* Mutant: execute that drops an override name the asset lacks and goes on
\* from the current index.
MutExecuteSkipsMissingName(a, d) ==
    IF d.is_end THEN CallResult(d, <<>>, <<>>, "ok")
    ELSE LET d1 == IF d.next_node_name # None /\ has_node(a, d.next_node_name[1])
                   THEN [d EXCEPT
                            !.current_index = a.nodes_by_name[d.next_node_name[1]],
                            !.next_index = None]
                   ELSE d
         IN  ExecuteLoop(a, [d1 EXCEPT !.next_node_name = None], <<>>, <<>>, {})

\* Mutant: execute that jumps to the named node and keeps a pending index
\* override.
MutExecuteKeepsNextIndex(a, d) ==
    IF d.is_end THEN CallResult(d, <<>>, <<>>, "ok")
    ELSE IF d.next_node_name # None /\ ~has_node(a, d.next_node_name[1])
    THEN CallResult(d, <<>>, <<>>, "panic")
    ELSE LET d1 == IF d.next_node_name # None
                   THEN [d EXCEPT
                            !.current_index = a.nodes_by_name[d.next_node_name[1]]]
                   ELSE d
         IN  ExecuteLoop(a, [d1 EXCEPT !.next_node_name = None], <<>>, <<>>, {})

\* Dialogue::execute
Execute(a, d) ==
    IF d.is_end THEN CallResult(d, <<>>, <<>>, "ok")
    ELSE IF d.next_node_name # None /\ ~has_node(a, d.next_node_name[1])
    THEN CallResult(d, <<>>, <<>>, "panic")
    ELSE LET d1 == IF d.next_node_name # None
                   THEN [d EXCEPT
                            !.current_index = a.nodes_by_name[d.next_node_name[1]],
                            !.next_index = None]
                   ELSE d
         IN  ExecuteLoop(a, [d1 EXCEPT !.next_node_name = None], <<>>, <<>>, {})

\* Dialogue::new: the instance takes its four state fields from the
\* placeholder component it is built from.
DialogueNew(placeholder) ==
    [current_index |-> placeholder.current_index,
     next_index |-> placeholder.next_index,
     next_node_name |-> placeholder.next_node_name,
     is_end |-> placeholder.is_end]

\* Dialogue::begin
Begin(a, d, node_name) ==
    Execute(a, [d EXCEPT !.next_node_name = Some(node_name), !.is_end = FALSE])

\* Mutant: begin_optional without the has_node check.
MutBeginOptionalUnchecked(a, d, node_name) ==
    [ret |-> TRUE, res |-> Begin(a, d, node_name)]

\* Dialogue::begin_optional; `ret` is the returned bool.
BeginOptional(a, d, node_name) ==
    IF ~has_node(a, node_name)
    THEN [ret |-> FALSE, res |-> CallResult(d, <<>>, <<>>, "ok")]
    ELSE [ret |-> TRUE, res |-> Begin(a, d, node_name)]

\* Mutant: advance that forgets to step to the next index.
MutAdvanceNoStep(a, d) ==
    IF d.is_end THEN CallResult(d, <<>>, <<>>, "ok")
    ELSE Execute(a, [d EXCEPT !.next_index = None])

\* Mutant: advance that always steps by one, whatever next_index holds.
MutAdvanceIgnoreOverride(a, d) ==
    IF d.is_end THEN CallResult(d, <<>>, <<>>, "ok")
    ELSE Execute(a,
             [d EXCEPT !.current_index = d.current_index + 1,
                       !.next_index = None])

\* Mutant: advance without the early return on an Ended instance.
MutAdvanceNoEndGuard(a, d) ==
    Execute(a,
        [d EXCEPT
            !.current_index = IF d.next_index # None
                              THEN d.next_index[1]
                              ELSE d.current_index + 1,
            !.next_index = None])

\* Dialogue::advance
Advance(a, d) ==
    IF d.is_end THEN CallResult(d, <<>>, <<>>, "ok")
    ELSE Execute(a,
             [d EXCEPT
                 !.current_index = IF d.next_index # None
                                   THEN d.next_index[1]
                                   ELSE d.current_index + 1,
                 !.next_index = None])

--------------------------------------------------------------------------
\* The world: entities with a Collider, map objects with a name and Visible.

Actors == {"A1", "A2"}
Items == {"K1", "K2"}
Entities == Actors \cup Items

\* Object::name of a map object.
ObjectName(e) == object_name[e]

\* ColliderBehavior; arg is the Load path, the Dialogue node name or the Ruby
\* code, ui and auto the DialogueSpec's ui_type and auto_display.
Behavior(tag, arg, ui, auto) == [tag |-> tag, arg |-> arg, ui |-> ui, auto |-> auto]
Obstruct == Behavior("Obstruct", "", "", FALSE)
Collect == Behavior("Collect", "", "", FALSE)
Load(path) == Behavior("Load", path, "", FALSE)

\* Collider::insert_behavior, Collider::remove_behavior
insert_behavior(bs, b) == bs \cup {b}
remove_behavior(bs, b) == bs \ {b}

\* Players are spawned with an Obstruct collider; a visible gem is
\* collectable, the hidden big gem carries nothing yet.
WorldStart ==
    /\ behaviors = [e \in Entities |->
                       IF e \in Actors THEN {Obstruct}
                       ELSE IF e = "K1" THEN {Collect} ELSE {}]
    /\ is_visible = [e \in Items |-> e = "K1"]

\* Vec2 / Vec3 in fixed point: ten units are 1.0 of velocity, z is kept in hundredths of a
\* position unit.
Vec(x, y) == [x |-> x, y |-> y]
Zero == Vec(0, 0)
VelUnit == 10       \* 1.0
DiagUnit == 7       \* 0.7071, a component of a normalized diagonal

\* z_from_y: z = -y / 100, here in hundredths.
z_from_y(y) == 0 - y

\* Collider::shape half extents and Collider::offset: players carry a flat
\* box below their origin, map objects a box around theirs.
HalfExtent(e) == IF e \in Actors THEN Vec(10, 5) ELSE Vec(10, 10)
ColliderOffset(e) == IF e \in Actors THEN Vec(0, -5) ELSE Zero

\* Game::current_map
CurrentMap == "m1"

\* Where the entities are spawned.
StartPosition(e) ==
    LET xy == CASE e = "A1" -> Vec(0, 0)
                [] e = "A2" -> Vec(60, 0)
                [] e = "K1" -> Vec(30, -5)
                [] e = "K2" -> Vec(30, 15)
    IN  [x |-> xy.x, y |-> xy.y,
         z |-> IF e \in Actors THEN z_from_y(ColliderOffset(e).y) ELSE 0]

\* Collision::default() / Collision::empty()
NoCollision == [kind |-> "Nil", behaviors |-> {}]

NoMove == [active |-> FALSE, velocity |-> Zero, speed |-> 0, dt |-> 0, delta |-> Zero]

\* The trigger system has not run.
NoTrigger == [events |-> <<>>, visits |-> <<>>, before |-> <<>>, after |-> <<>>]

\* A map object as bevy_tiled created it: visible flag, whether it is a
\* shape without image, and its properties in the order the map iterates.
Object(visible, shape, props) == [visible |-> visible, is_shape |-> shape, props |-> props]

\* The map objects are set up: every object has its collider, no
\* ObjectReadyEvent is waiting.
ObjectsSetUp ==
    /\ objects = [e \in Items |-> Object(e = "K1", FALSE, <<>>)]
    /\ object_ready = <<>>
    /\ entity_visibility = [e \in Items |-> Some(e = "K1")]
    /\ components = [e \in Items |-> {"Draw", "Collider"}]

\* State<AppState>: the state on top of the stack and the scheduled change.
AppStateIn(state) == [current |-> state, scheduled |-> None]

\* State::set: refused when the state is already current or when a change
\* is already scheduled; otherwise the change is scheduled.
StateSet(st, state) ==
    IF st.current = state \/ st.scheduled # None
    THEN [ok |-> FALSE, state |-> st]
    ELSE [ok |-> TRUE, state |-> [st EXCEPT !.scheduled = Some(state)]]

\* LoadProgress once the game is running: reset() has cleared it.
LoadProgress(handles, next_state, next_dialogue) ==
    [handles |-> handles, next_state |-> next_state, next_dialogue |-> next_dialogue]

\* The level loader has not run.
NoLevelLoads == [events |-> <<>>, visits |-> <<>>, waits |-> <<>>]

\* In game on the start map, which is loaded and spawned.
LoadIdle ==
    /\ app_state = AppStateIn("InGame")
    /\ current_map = CurrentMap
    /\ loaded_maps = {CurrentMap}
    /\ map_containers = {}
    /\ to_load = LoadProgress({}, "InGame", None)
    /\ levelLoads = NoLevelLoads
    /\ ObjectsSetUp

\* Neither input system has run.
NoInput ==
    [keys |-> [a \in Actors |-> {}], applied |-> FALSE, steps |-> <<>>,
     before |-> <<>>, after |-> <<>>]

\* Characters standing where they were spawned, nothing collected.
CharactersStill ==
    /\ dialogue_ui = None
    /\ despawned = {}
    /\ position = [e \in Entities |-> StartPosition(e)]
    /\ velocity = [a \in Actors |-> Zero]
    /\ movement_speed = [a \in Actors |-> 0]
    /\ collision = [a \in Actors |-> NoCollision]
    /\ frames = 0
    /\ preMove = [position |-> position, behaviors |-> behaviors, despawned |-> {}]
    /\ lastMove = [a \in Actors |-> NoMove]
    /\ sent = <<>>
    /\ collects = [e \in Entities |-> 0]
    /\ removals = [e \in Entities |-> 0]
    /\ triggered = NoTrigger
    /\ dispatched = <<>>
    /\ inputLog = NoInput
    /\ LoadIdle

\* Characters at rest; no player has a dialogue to trigger
\* (DialogueActor::default).
CharactersAtRest ==
    /\ CharactersStill
    /\ collider_dialogue = [a \in Actors |-> None]

\* Characters at rest, nothing sent, a frame about to start.
CharactersIdle ==
    /\ CharactersAtRest
    /\ interactions = <<>>
    /\ framePc = "input"

\* Players belong to no map; both map objects are on the current one.
MotionStart ==
    /\ owner_map = [e \in Entities |-> IF e \in Actors THEN None ELSE Some(CurrentMap)]
    /\ object_name = [e \in Items |-> IF e = "K1" THEN "gem" ELSE "biggem"]
    /\ CharactersIdle

--------------------------------------------------------------------------
\* The script command bridge.

MaxAppends == 3     \* commands pushed in one run
MaxDrains == 3      \* drains started in one run

\* ScriptCommand
SetVisible(name, v) == [cmd |-> "SetVisible", name |-> name, flag |-> v]
SetCollectable(name, v) == [cmd |-> "SetCollectable", name |-> name, flag |-> v]
StartDialogueIfExists(node) ==
    [cmd |-> "StartDialogueIfExists", name |-> node, flag |-> FALSE]

\* A call of a script-callable native function.  hash is the Ruby hash of
\* update_map_objects_by_name as a sequence of [prop, value] pairs.
StartDialogueCall(node) == [fn |-> "start_dialogue", name |-> node, hash |-> <<>>]
UpdateCall(name, hash) ==
    [fn |-> "update_map_objects_by_name", name |-> name, hash |-> hash]
Prop(prop, value) == [prop |-> prop, value |-> value]

\* The pushes of update_map_objects_by_name for the hash entries from i on.
RECURSIVE UpdatePushes(_, _, _)
UpdatePushes(name, hash, i) ==
    IF i > Len(hash) THEN <<>>
    ELSE LET e == hash[i] IN
         (IF e.prop = "visible" THEN <<SetVisible(name, e.value)>> ELSE <<>>)
         \o (IF e.prop = "collectable" /\ e.value
             THEN <<SetCollectable(name, TRUE)>> ELSE <<>>)
         \o UpdatePushes(name, hash, i + 1)

\* What one native call pushes onto SCRIPT_COMMANDS, in order.
PushesOf(call) ==
    IF call.fn = "start_dialogue"
    THEN <<StartDialogueIfExists(call.name)>>
    ELSE UpdatePushes(call.name, call.hash, 1)

\* Script code and the native calls its evaluation makes (the ScriptCore
\* class methods registered in new_interpreter).
ScriptCodes ==
    {"ScriptCore.inc", "ScriptCore.start_dialogue('Greet')",
     "ScriptCore.start_dialogue('Start')"}
NativeCallsOf(code) ==
    CASE code = "ScriptCore.start_dialogue('Greet')" -> <<StartDialogueCall("Greet")>>
      [] code = "ScriptCore.start_dialogue('Start')" -> <<StartDialogueCall("Start")>>
      [] OTHER -> <<>>

\* ScriptVm::eval_repl_code: a parse error returns before anything runs, an
\* error raised by the run is printed and returned; `calls` are the native
\* calls the evaluation made.
eval_repl_code(code) ==
    IF code = ParseErrorCode THEN [result |-> Err("parse"), calls |-> <<>>]
    ELSE IF code = RuntimeErrorCode THEN [result |-> Err("runtime"), calls |-> <<>>]
    ELSE [result |-> Ok, calls |-> NativeCallsOf(code)]

\* Mutant: an evaluation whose error is unwrapped instead of logged.
MutEvalUnwrapsResult(code) ==
    LET r == eval_repl_code(code)
    IN  [log |-> IF r.result.ok THEN "result" ELSE "error", calls |-> r.calls,
         outcome |-> IF r.result.ok THEN "ok" ELSE "panic"]

\* ScriptVm::eval_repl_code_logging_result: both arms log and return.
eval_repl_code_logging_result(code) ==
    LET r == eval_repl_code(code)
    IN  [log |-> IF r.result.ok THEN "result" ELSE "error", calls |-> r.calls,
         outcome |-> "ok"]

\* Mutex::lock returns only when nobody holds the mutex.
CanLock(l) == l = "free"

\* Mutant: push at the front.
MutPushFront(q, c) == <<c>> \o q

\* Vec::push
Push(q, c) == Append(q, c)

\* Vec::drain(..): yields every element in order, leaves the Vec empty.
DrainAll(q) == [taken |-> q, rest |-> <<>>]

Callbacks == {"cb1", "cb2"}
\* pushed is history: the commands the running call has appended so far.
CallbackIdle == [pc |-> "idle", todo |-> <<>>, pushed |-> 0]

QueueEmpty ==
    /\ script_commands = <<>>
    /\ lock = "free"
    /\ hostPc = "idle"
    /\ pending = <<>>
    /\ script_command_events = <<>>
    /\ callback = [c \in Callbacks |-> CallbackIdle]
    /\ appended = <<>>
    /\ delivered = <<>>
    /\ drains = <<>>
    /\ nested = [attempted |-> 0, completed |-> 0]

\* Commands appended since the previous drain took the queue.
RECURSIVE ExpectedSoFar(_, _)
ExpectedSoFar(ds, i) ==
    IF i > Len(ds) THEN 0 ELSE Len(ds[i].expected) + ExpectedSoFar(ds, i + 1)
SinceLastDrainOf(app, ds) == SubSeq(app, ExpectedSoFar(ds, 1) + 1, Len(app))
SinceLastDrain == SinceLastDrainOf(appended, drains)

DrainRecord(r) ==
    [taken |-> r.taken, rest |-> r.rest, expected |-> SinceLastDrain]

--------------------------------------------------------------------------
\* The dialogue API driven by a caller.

NoCall ==
    [op |-> "none", arg |-> "", ret |-> FALSE, events |-> <<>>,
     scripts |-> <<>>, pre |-> DialogueDefault]

Called(op, arg, ret, res, pre) ==
    [op |-> op, arg |-> arg, ret |-> ret, events |-> res.events,
     scripts |-> res.scripts, pre |-> pre]

DialogueInit ==
    /\ \E n \in 0..MaxNodes : \E nodes \in [1..n -> NodeAlphabet] :
          asset = DialogueAssetInit(nodes)
    /\ dialogue = DialogueDefault
    /\ lastCall = NoCall
    /\ fault = "none"
    /\ QueueEmpty
    /\ WorldStart
    /\ MotionStart

DoBegin(name) ==
    /\ fault = "none"
    /\ LET res == Begin(asset, dialogue, name) IN
       /\ dialogue' = res.d
       /\ lastCall' = Called("begin", name, TRUE, res, dialogue)
       /\ fault' = IF res.outcome = "ok" THEN "none" ELSE res.outcome
    /\ UNCHANGED <<asset, queueVars, worldVars, motionVars, loadVars>>

DoBeginOptional(name) ==
    /\ fault = "none"
    /\ LET r == BeginOptional(asset, dialogue, name) IN
       /\ dialogue' = r.res.d
       /\ lastCall' = Called("begin_optional", name, r.ret, r.res, dialogue)
       /\ fault' = IF r.res.outcome = "ok" THEN "none" ELSE r.res.outcome
    /\ UNCHANGED <<asset, queueVars, worldVars, motionVars, loadVars>>

DoAdvance ==
    /\ fault = "none"
    /\ dialogue.current_index < MaxIndex
    /\ LET res == Advance(asset, dialogue) IN
       /\ dialogue' = res.d
       /\ lastCall' = Called("advance", "", TRUE, res, dialogue)
       /\ fault' = IF res.outcome = "ok" THEN "none" ELSE res.outcome
    /\ UNCHANGED <<asset, queueVars, worldVars, motionVars, loadVars>>

\* Bound of the placeholder-driven specification: longest node sequence.
MaxPlaceholderNodes == 2

\* DialoguePlaceholder has public fields: besides the default, placeholders
\* of an instance that is InProgress, with and without an index override.
PlaceholderValues ==
    {DialogueDefault} \cup
    {[current_index |-> i, next_index |-> n, next_node_name |-> None,
      is_end |-> FALSE] : i \in 0..1, n \in {None, Some(0), Some(2)}}

\* An instance built by Dialogue::new from any of the placeholders.
PlaceholderInit ==
    /\ \E n \in 0..MaxPlaceholderNodes : \E nodes \in [1..n -> NodeAlphabet] :
          asset = DialogueAssetInit(nodes)
    /\ \E p \in PlaceholderValues : dialogue = DialogueNew(p)
    /\ lastCall = NoCall
    /\ fault = "none"
    /\ QueueEmpty
    /\ WorldStart
    /\ MotionStart

DialogueNext ==
    \/ \E name \in CallNames : DoBegin(name)
    \/ \E name \in CallNames : DoBeginOptional(name)
    \/ DoAdvance

SpecDialogue == DialogueInit /\ [][DialogueNext]_vars

SpecPlaceholder == PlaceholderInit /\ [][DialogueNext]_vars

--------------------------------------------------------------------------
\* Claims about the dialogue engine.

C1Asset ==
    DialogueAssetInit(<<DialogueNode("Start", GoToBody("Greet")),
                        DialogueNode("Greet", TextBody("Hello")),
                        DialogueNode("", EndBody)>>)

\* The instance after begin("Start") on C1Asset, and after the advance that
\* follows it.
C1AfterBegin ==
    [current_index |-> 1, next_index |-> None, next_node_name |-> None,
     is_end |-> FALSE]
C1AfterAdvance == [C1AfterBegin EXCEPT !.current_index = 2, !.is_end = TRUE]

\* C1: on the asset [Start: GoTo("Greet"), Greet: Text("Hello"), End],
\* begin("Start") on an Ended instance emits exactly Text("Hello") and leaves
\* the instance InProgress; the advance() that follows emits exactly End and
\* leaves it Ended; a further advance() emits nothing and leaves it Ended.
C1_StartGreetEnd ==
    asset = C1Asset =>
        /\ (lastCall.op = "begin" /\ lastCall.arg = "Start" /\ lastCall.pre.is_end)
              => /\ lastCall.events = <<TextEvent("Hello")>>
                 /\ in_progress(dialogue)
                 /\ dialogue = C1AfterBegin
                 /\ fault = "none"
        /\ (lastCall.op = "advance" /\ lastCall.pre = C1AfterBegin)
              => /\ lastCall.events = <<EndEvent>>
                 /\ ~in_progress(dialogue)
                 /\ dialogue = C1AfterAdvance
                 /\ fault = "none"
        /\ (lastCall.op = "advance" /\ lastCall.pre = C1AfterAdvance)
              => /\ lastCall.events = <<>>
                 /\ ~in_progress(dialogue)
                 /\ dialogue = C1AfterAdvance
                 /\ fault = "none"

\* The third call of the scenario has been made.
C1_Witness ==
    /\ asset = C1Asset
    /\ lastCall.op = "advance"
    /\ lastCall.pre = C1AfterAdvance
    /\ dialogue.is_end

\* C2: begin_optional(name) with a name that is no key of nodes_by_name
\* returns false, emits no event and leaves current_index, next_index,
\* next_node_name and is_end as they were.
C2_BeginOptionalMissing ==
    (lastCall.op = "begin_optional" /\ ~has_node(asset, lastCall.arg))
        => /\ lastCall.ret = FALSE
           /\ lastCall.events = <<>>
           /\ lastCall.scripts = <<>>
           /\ dialogue = lastCall.pre
           /\ fault = "none"

\* begin_optional on a missing name, made on an instance that is InProgress
\* past the first node.
C2_Witness ==
    /\ lastCall.op = "begin_optional"
    /\ ~has_node(asset, lastCall.arg)
    /\ in_progress(lastCall.pre)
    /\ lastCall.pre.current_index > 0

--------------------------------------------------------------------------
\* The last call ran the loop of execute: a begin, a begin_optional that
\* found its node, or an advance made on an instance that was InProgress.
Executed ==
    \/ lastCall.op = "begin"
    \/ lastCall.op = "begin_optional" /\ lastCall.ret
    \/ lastCall.op = "advance" /\ in_progress(lastCall.pre)

PastEnd(d) == d.current_index >= Len(asset.nodes)

\* C11: when the execution started by begin or advance finds the current
\* index past the end of the node sequence, the instance is treated as
\* Ended: the call emits no event, in_progress() is false afterwards, and a
\* later advance() changes nothing and emits nothing.
C11_PastEndIsEnded ==
    /\ (Executed /\ lastCall.op # "begin_optional" /\ fault = "none"
            /\ PastEnd(dialogue))
          => /\ lastCall.events = <<>>
             /\ ~in_progress(dialogue)
    /\ (lastCall.op = "advance" /\ PastEnd(lastCall.pre))
          => /\ lastCall.events = <<>>
             /\ dialogue = lastCall.pre

\* C12: an instance starts Ended, and advance() on an Ended instance, also
\* before any begin, is a no-op: no event is emitted, no script is run, and
\* current_index, next_index, next_node_name and is_end keep their values.
\* Ended and InProgress are the only states: is_end is a boolean.
C12_AdvanceOnEndedIsNoOp ==
    /\ dialogue.is_end \in BOOLEAN
    /\ lastCall.op = "none" => dialogue = DialogueDefault /\ ~in_progress(dialogue)
    /\ (lastCall.op = "advance" /\ ~in_progress(lastCall.pre))
          => /\ lastCall.events = <<>>
             /\ lastCall.scripts = <<>>
             /\ dialogue = lastCall.pre
             /\ fault = "none"

\* advance() has been called on a freshly constructed instance of an asset
\* that has nodes, before any begin.
C12_Witness ==
    /\ lastCall.op = "advance"
    /\ lastCall.pre = DialogueDefault
    /\ Len(asset.nodes) > 0
    /\ dialogue.is_end

\* The index advance() is to execute from: the pending index override when
\* the instance had one, else the index after the current one.
AdvanceTarget ==
    IF lastCall.pre.next_index # None
    THEN lastCall.pre.next_index[1]
    ELSE lastCall.pre.current_index + 1

\* C13: advance() on an InProgress instance moves current_index to the
\* pending index override if one is set, else to current_index + 1, clears
\* the override and executes from that index: what the call emits, runs and
\* leaves as current_index is decided by the node at that index.  When the
\* call returns, neither an index nor a name override remains.
C13_AdvanceStepsThenExecutes ==
    (lastCall.op = "advance" /\ in_progress(lastCall.pre)) =>
        LET t == AdvanceTarget IN
        /\ fault = "none" =>
              dialogue.next_index = None /\ dialogue.next_node_name = None
        /\ t >= Len(asset.nodes) =>
              /\ fault = "none"
              /\ dialogue.current_index = t
              /\ lastCall.events = <<>> /\ lastCall.scripts = <<>>
        /\ t < Len(asset.nodes) =>
              LET body == asset.nodes[t + 1].body IN
              /\ body.kind = "Text" =>
                    /\ fault = "none"
                    /\ dialogue.current_index = t
                    /\ lastCall.events = <<TextEvent(body.arg)>>
                    /\ lastCall.scripts = <<>>
              /\ body.kind = "End" =>
                    /\ fault = "none"
                    /\ dialogue.current_index = t /\ dialogue.is_end
                    /\ lastCall.events = <<EndEvent>>
                    /\ lastCall.scripts = <<>>
              /\ body.kind = "Ruby" =>
                    /\ lastCall.scripts # <<>>
                    /\ lastCall.scripts[1] = [index |-> t, code |-> body.arg]
              /\ body.kind = "Branch" =>
                    fault = "panic" /\ lastCall.events = <<>>
              /\ (body.kind = "GoTo" /\ ~has_node(asset, body.arg)) =>
                    fault = "panic" /\ lastCall.events = <<>>
              /\ (body.kind = "GoTo" /\ has_node(asset, body.arg)
                    /\ asset.nodes[asset.nodes_by_name[body.arg] + 1].body.kind = "Text") =>
                    /\ fault = "none"
                    /\ dialogue.current_index = asset.nodes_by_name[body.arg]
                    /\ lastCall.events =
                          <<TextEvent(asset.nodes[dialogue.current_index + 1].body.arg)>>

\* advance() has been called with an index override that differs from the
\* next index, and the node at the override is a Text node.
C13_Witness ==
    /\ lastCall.op = "advance"
    /\ in_progress(lastCall.pre)
    /\ lastCall.pre.next_index # None
    /\ AdvanceTarget # lastCall.pre.current_index + 1
    /\ AdvanceTarget < Len(asset.nodes)
    /\ asset.nodes[AdvanceTarget + 1].body.kind = "Text"
    /\ dialogue.current_index = AdvanceTarget
    /\ dialogue.next_index = None

\* The node the instance stands on after the last call.
CurrentNode == asset.nodes[dialogue.current_index + 1]

\* C14: a Text(s) node emits exactly one Text event carrying s and stops the
\* loop, so the instance stays on that node; every single call of begin,
\* begin_optional or advance emits at most one DialogueEvent.
C14_AtMostOneEventPerCall ==
    /\ Len(lastCall.events) <= 1
    /\ (Executed /\ fault = "none" /\ ~PastEnd(dialogue)
            /\ CurrentNode.body.kind = "Text")
          => lastCall.events = <<TextEvent(CurrentNode.body.arg)>>
    /\ (lastCall.events # <<>> /\ lastCall.events[1].type = "Text")
          => /\ fault = "none"
             /\ ~PastEnd(dialogue)
             /\ CurrentNode.body = TextBody(lastCall.events[1].text)
             /\ in_progress(dialogue)

\* A call ran a script, reached a Text node and stopped there although the
\* node after it is a Text node as well.
C14_Witness ==
    /\ Executed
    /\ lastCall.scripts # <<>>
    /\ lastCall.events = <<TextEvent("Hello")>>
    /\ dialogue.current_index + 1 < Len(asset.nodes)
    /\ asset.nodes[dialogue.current_index + 2].body.kind = "Text"

\* The index the last call started its loop at: the named node of a begin,
\* the target of an advance.
FirstIndex ==
    IF lastCall.op = "advance" THEN AdvanceTarget
    ELSE asset.nodes_by_name[lastCall.arg]

\* C15: an End node sets the instance Ended, leaves no pending override,
\* emits exactly one End event and stops the loop: the instance stays on the
\* End node and the nodes after it are not executed by that call (a call
\* that starts on the End node runs no script at all).
C15_EndStopsAndEnds ==
    /\ (Executed /\ fault = "none" /\ ~PastEnd(dialogue)
            /\ CurrentNode.body.kind = "End")
          => /\ lastCall.events = <<EndEvent>>
             /\ ~in_progress(dialogue)
             /\ dialogue.next_index = None
             /\ dialogue.next_node_name = None
             /\ FirstIndex = dialogue.current_index => lastCall.scripts = <<>>
    /\ (lastCall.events = <<EndEvent>>)
          => /\ fault = "none"
             /\ ~PastEnd(dialogue)
             /\ CurrentNode.body.kind = "End"
             /\ ~in_progress(dialogue)

\* A call reached an End node that is followed by a script node, which it
\* did not run.
C15_Witness ==
    /\ Executed
    /\ lastCall.events = <<EndEvent>>
    /\ dialogue.is_end
    /\ dialogue.current_index + 1 < Len(asset.nodes)
    /\ asset.nodes[dialogue.current_index + 2].body.kind = "Ruby"
    /\ FirstIndex = dialogue.current_index
    /\ lastCall.scripts = <<>>

\* Where a chain of GoTo nodes that starts at index i lands: the first
\* index on the chain that is past the end or holds a node other than GoTo.
\* `fuel` bounds the chain; a chain that does not land gives -1.
RECURSIVE Lands(_, _)
Lands(i, fuel) ==
    IF i >= Len(asset.nodes) THEN i
    ELSE LET body == asset.nodes[i + 1].body IN
         IF body.kind # "GoTo" THEN i
         ELSE IF fuel = 0 \/ ~has_node(asset, body.arg) THEN -1
         ELSE Lands(asset.nodes_by_name[body.arg], fuel - 1)

LandsFrom(i) == Lands(i, Len(asset.nodes))

\* C16: a script node evaluates its code exactly once, moves the index on
\* by one and continues in the same call; one begin or advance runs through
\* any run of consecutive script and GoTo nodes, GoTo emitting no event,
\* until it reaches a Text node, an End node or the end of the sequence.
C16_ScriptsRunThrough ==
    (Executed /\ fault = "none") =>
        LET sc == lastCall.scripts
            n == Len(sc)
        IN  \* every evaluation is that of a script node, with its code
            /\ \A i \in 1..n :
                  /\ sc[i].index < Len(asset.nodes)
                  /\ asset.nodes[sc[i].index + 1].body = RubyBody(sc[i].code)
            \* no script node is evaluated twice by the call
            /\ \A i, j \in 1..n : sc[i].index = sc[j].index => i = j
            \* the first evaluation is where the GoTo chain from the start lands
            /\ n > 0 => sc[1].index = LandsFrom(FirstIndex)
            \* each next evaluation is where the chain from index + 1 lands
            /\ \A i \in 1..(n - 1) : sc[i + 1].index = LandsFrom(sc[i].index + 1)
            \* and the call stops where the chain after the last one lands
            /\ dialogue.current_index =
                  LandsFrom(IF n = 0 THEN FirstIndex ELSE sc[n].index + 1)
            \* which is a Text node, an End node or the end of the sequence
            /\ ~PastEnd(dialogue) => CurrentNode.body.kind \in {"Text", "End"}
            /\ PastEnd(dialogue) => lastCall.events = <<>>
            /\ ~PastEnd(dialogue) => Len(lastCall.events) = 1

\* One call evaluated a script node, went through the GoTo node after it
\* and stopped on a Text node.
C16_Witness ==
    /\ Executed
    /\ fault = "none"
    /\ Len(lastCall.scripts) = 1
    /\ lastCall.scripts[1].index + 1 < Len(asset.nodes)
    /\ asset.nodes[lastCall.scripts[1].index + 2].body.kind = "GoTo"
    /\ lastCall.events = <<TextEvent("Hello")>>

\* Every GoTo node of the asset names a node the asset has, the asset has
\* no Branch node, and the name the last begin was called with resolves.
AllNamesResolve ==
    /\ \A i \in 1..Len(asset.nodes) :
          LET body == asset.nodes[i].body IN
          /\ body.kind # "Branch"
          /\ body.kind = "GoTo" => has_node(asset, body.arg)
    /\ lastCall.op = "begin" => has_node(asset, lastCall.arg)

OnUnknownGoTo ==
    /\ ~PastEnd(dialogue)
    /\ CurrentNode.body.kind = "GoTo"
    /\ ~has_node(asset, CurrentNode.body.arg)

\* C18: a node name the asset's name map lacks is fatal through the
\* non-optional API: begin(name) with such a name panics, and so does the
\* execution of a GoTo node with such a name, instead of skipping it; the
\* call that panics emits no dialogue event.
C18_UnknownNameIsFatal ==
    /\ (lastCall.op = "begin" /\ ~has_node(asset, lastCall.arg))
          => /\ fault = "panic"
             /\ lastCall.events = <<>>
             /\ lastCall.scripts = <<>>
    \* a call that got as far as a GoTo with an unknown name panicked there
    /\ (Executed /\ OnUnknownGoTo) => fault = "panic"
    \* and no call returns after walking over one
    /\ (Executed /\ fault = "none")
          => \A i \in 1..Len(lastCall.scripts) :
                LandsFrom(lastCall.scripts[i].index + 1) # -1
    /\ fault = "panic" => lastCall.events = <<>>

\* A call ran a script node and then panicked on the GoTo node after it,
\* whose name the asset lacks.
C18_Witness ==
    /\ Executed
    /\ fault = "panic"
    /\ OnUnknownGoTo
    /\ lastCall.scripts # <<>>
    /\ lastCall.events = <<>>

\* The instance stands on a Branch node.
OnBranch == ~PastEnd(dialogue) /\ CurrentNode.body.kind = "Branch"

\* C19: reaching a Branch node during execution is fatal: the call panics
\* and emits no event, and no call ever returns leaving an InProgress
\* instance waiting on a Branch node.
C19_BranchIsFatal ==
    /\ (Executed /\ OnBranch) => fault = "panic" /\ lastCall.events = <<>>
    /\ (fault = "none" /\ in_progress(dialogue)) => ~OnBranch

\* An advance from a Text node walked onto the Branch node after it.
C19_Witness ==
    /\ lastCall.op = "advance"
    /\ in_progress(lastCall.pre)
    /\ OnBranch
    /\ dialogue.current_index = lastCall.pre.current_index + 1
    /\ fault = "panic"

\* The indices (from 0) of the nodes that carry the name n.
IndicesNamed(n) == {i \in 0..(Len(asset.nodes) - 1) : asset.nodes[i + 1].name = n}

\* The lowest of them.
FirstNamed(n) == CHOOSE i \in IndicesNamed(n) : \A j \in IndicesNamed(n) : i <= j

\* C21: the name map holds exactly the non-empty names of the nodes, each
\* bound to the first node (lowest index) that carries it, so begin(name)
\* starts at that first node; nodes with an empty name are not in the map.
C21_FirstRegisteredNameWins ==
    /\ "" \notin DOMAIN asset.nodes_by_name
    /\ \A n \in NodeNames :
          /\ has_node(asset, n) <=> IndicesNamed(n) # {}
          /\ has_node(asset, n) => asset.nodes_by_name[n] = FirstNamed(n)
    /\ (lastCall.op = "begin" /\ has_node(asset, lastCall.arg)
            /\ asset.nodes[FirstNamed(lastCall.arg) + 1].body.kind = "Text")
          => /\ dialogue.current_index = FirstNamed(lastCall.arg)
             /\ lastCall.events =
                   <<TextEvent(asset.nodes[FirstNamed(lastCall.arg) + 1].body.arg)>>

--------------------------------------------------------------------------
\* The host side of the script command bridge.

\* The state a command is applied to, threaded through a loop over commands;
\* outcome is "ok", or why the loop stopped: "panic", "hang", "relock".
Here ==
    [dialogue |-> dialogue, lastCall |-> lastCall, behaviors |-> behaviors,
     is_visible |-> is_visible, despawned |-> despawned,
     script_commands |-> script_commands, appended |-> appended,
     nested |-> nested, outcome |-> "ok"]

\* The native calls made while the scripts of one dialogue run are evaluated
\* by the script VM the dialogue is bound to.
RECURSIVE DialogueScriptCalls(_, _)
DialogueScriptCalls(scripts, i) ==
    IF i > Len(scripts) THEN <<>>
    ELSE NativeCallsOf(scripts[i].code) \o DialogueScriptCalls(scripts, i + 1)

\* Index of the first script of the run that calls a native function.
RECURSIVE FirstCallingScript(_, _)
FirstCallingScript(scripts, i) ==
    IF NativeCallsOf(scripts[i].code) # <<>> THEN scripts[i].index
    ELSE FirstCallingScript(scripts, i + 1)

RECURSIVE PushAll(_, _)
PushAll(q, cmds) ==
    IF cmds = <<>> THEN q ELSE PushAll(Push(q, Head(cmds)), Tail(cmds))

RECURSIVE AllPushes(_, _)
AllPushes(calls, i) ==
    IF i > Len(calls) THEN <<>> ELSE PushesOf(calls[i]) \o AllPushes(calls, i + 1)

\* ScriptCommand::StartDialogueIfExists arm: begin_optional on the dialogue.
\* Script nodes reached by the run call back into start_dialogue /
\* update_map_objects_by_name, which lock SCRIPT_COMMANDS; lockHeld says
\* whether the caller of this arm holds that lock.
ApplyStartDialogue(W, node, lockHeld) ==
    LET r == BeginOptional(asset, W.dialogue, node)
        calls == DialogueScriptCalls(r.res.scripts, 1)
        pushes == AllPushes(calls, 1)
    IN  IF calls # <<>> /\ lockHeld
        THEN [W EXCEPT
                 !.dialogue =
                     [r.res.d EXCEPT
                         !.current_index = FirstCallingScript(r.res.scripts, 1),
                         !.is_end = FALSE],
                 !.nested.attempted = @ + 1,
                 !.outcome = "relock"]
        ELSE [W EXCEPT
                 !.dialogue = r.res.d,
                 !.lastCall = Called("begin_optional", node, r.ret, r.res, W.dialogue),
                 !.script_commands = PushAll(@, pushes),
                 !.appended = @ \o pushes,
                 !.nested.attempted = @ + Len(calls),
                 !.nested.completed = @ + Len(calls),
                 !.outcome = r.res.outcome]

\* One arm of the match in process_script_commands /
\* process_script_commands_system.
ApplyCommand(W, c, lockHeld) ==
    CASE c.cmd = "SetVisible" ->
            [W EXCEPT !.is_visible =
                [e \in DOMAIN @ |->
                    IF e \notin W.despawned /\ ObjectName(e) = c.name
                    THEN c.flag ELSE @[e]]]
      [] c.cmd = "SetCollectable" ->
            [W EXCEPT !.behaviors =
                [e \in DOMAIN @ |->
                    IF e \in DOMAIN W.is_visible /\ e \notin W.despawned
                       /\ ObjectName(e) = c.name
                    THEN insert_behavior(@[e], Collect) ELSE @[e]]]
      [] c.cmd = "StartDialogueIfExists" ->
            ApplyStartDialogue(W, c.name, lockHeld)

RECURSIVE ApplyAll(_, _, _)
ApplyAll(W, cmds, lockHeld) ==
    IF cmds = <<>> \/ W.outcome # "ok" THEN W
    ELSE ApplyAll(ApplyCommand(W, Head(cmds), lockHeld), Tail(cmds), lockHeld)

\* The applied state written back.
Commit(W) ==
    /\ dialogue' = W.dialogue
    /\ lastCall' = W.lastCall
    /\ behaviors' = W.behaviors
    /\ is_visible' = W.is_visible
    /\ script_commands' = W.script_commands
    /\ appended' = W.appended
    /\ nested' = W.nested

\* A script evaluated outside any drain calls a native function: the
\* function takes the lock ...
CallbackEnter(c, call) ==
    /\ fault = "none"
    /\ callback[c].pc = "idle"
    /\ Len(appended) + Len(PushesOf(call)) <= MaxAppends
    /\ CanLock(lock)
    /\ lock' = c
    /\ callback' = [callback EXCEPT ![c] = [pc |-> "locked", todo |-> PushesOf(call), pushed |-> 0]]
    /\ UNCHANGED <<dialogueVars, fault, script_commands, hostPc, pending,
                   script_command_events, appended, delivered, drains, nested,
                   worldVars, motionVars, loadVars>>

\* ... pushes its commands ...
CallbackPush(c) ==
    /\ fault = "none"
    /\ callback[c].pc = "locked"
    /\ callback[c].todo # <<>>
    /\ script_commands' = Push(script_commands, Head(callback[c].todo))
    /\ appended' = Append(appended, Head(callback[c].todo))
    /\ callback' = [callback EXCEPT ![c].todo = Tail(@), ![c].pushed = @ + 1]
    /\ UNCHANGED <<dialogueVars, fault, lock, hostPc, pending,
                   script_command_events, delivered, drains, nested, worldVars, motionVars, loadVars>>

\* ... and drops the guard when it returns.
CallbackReturn(c) ==
    /\ fault = "none"
    /\ callback[c].pc = "locked"
    /\ callback[c].todo = <<>>
    /\ lock' = "free"
    /\ callback' = [callback EXCEPT ![c] = CallbackIdle]
    /\ UNCHANGED <<dialogueVars, fault, script_commands, hostPc, pending,
                   script_command_events, appended, delivered, drains, nested,
                   worldVars, motionVars, loadVars>>

\* in_game_start_runonce: lock SCRIPT_COMMANDS ...
RunonceLock ==
    /\ fault = "none"
    /\ hostPc = "idle"
    /\ Len(drains) < MaxDrains
    /\ CanLock(lock)
    /\ lock' = "host"
    /\ hostPc' = "runonce"
    /\ UNCHANGED <<dialogueVars, fault, script_commands, pending,
                   script_command_events, callback, appended, delivered, drains,
                   nested, worldVars, motionVars, loadVars>>

\* ... and turn every queued command into a ScriptCommandEvent.
RunonceDrain ==
    /\ fault = "none"
    /\ hostPc = "runonce"
    /\ LET r == DrainAll(script_commands) IN
       /\ script_commands' = r.rest
       /\ script_command_events' = script_command_events \o r.taken
       /\ delivered' = delivered \o r.taken
       /\ drains' = Append(drains, DrainRecord(r))
    /\ lock' = "free"
    /\ hostPc' = "idle"
    /\ UNCHANGED <<dialogueVars, fault, pending, callback, appended, nested,
                   worldVars, motionVars, loadVars>>

\* process_script_commands_system: apply every ScriptCommandEvent.  No lock
\* is held here, so scripts run by a started dialogue can append.
ProcessScriptCommandEvents ==
    /\ fault = "none"
    /\ hostPc = "idle"
    /\ script_command_events # <<>>
    /\ CanLock(lock)
    /\ LET W == ApplyAll(Here, script_command_events, FALSE) IN
       /\ Len(W.appended) <= MaxAppends
       /\ Commit(W)
       /\ fault' = IF W.outcome = "ok" THEN "none" ELSE W.outcome
    /\ script_command_events' = <<>>
    /\ UNCHANGED <<asset, lock, hostPc, pending, callback, delivered, drains,
                   motionVars, loadVars>>

\* process_script_commands: lock SCRIPT_COMMANDS and start draining it; the
\* guard lives until the function returns.
PscLock ==
    /\ fault = "none"
    /\ hostPc = "idle"
    /\ Len(drains) < MaxDrains
    /\ CanLock(lock)
    /\ lock' = "host"
    /\ hostPc' = "psc"
    /\ LET r == DrainAll(script_commands) IN
       /\ script_commands' = r.rest
       /\ pending' = r.taken
       /\ drains' = Append(drains, DrainRecord(r))
    /\ UNCHANGED <<dialogueVars, fault, script_command_events, callback,
                   appended, delivered, nested, worldVars, motionVars, loadVars>>

\* One iteration of its loop.  A native callback reached from the iteration
\* locks SCRIPT_COMMANDS on the thread that already holds it: std's Mutex
\* leaves that unspecified, it deadlocks or panics and never returns.  A
\* panic unwinds through the Drain, which drops what it still holds.
PscApply ==
    /\ fault = "none"
    /\ hostPc = "psc"
    /\ pending # <<>>
    /\ LET W == ApplyCommand(Here, Head(pending), TRUE) IN
       /\ Len(W.appended) <= MaxAppends
       /\ Commit(W)
       /\ delivered' = Append(delivered, Head(pending))
       /\ \/ /\ W.outcome = "ok"
             /\ fault' = "none"
             /\ pending' = Tail(pending)
             /\ UNCHANGED <<lock, hostPc>>
          \/ /\ W.outcome = "relock"
             /\ fault' = "deadlock"
             /\ pending' = Tail(pending)
             /\ UNCHANGED <<lock, hostPc>>
          \/ /\ W.outcome # "ok"
             /\ fault' = IF W.outcome = "relock" THEN "panic" ELSE W.outcome
             /\ pending' = IF W.outcome = "hang" THEN Tail(pending) ELSE <<>>
             /\ lock' = IF W.outcome = "hang" THEN lock ELSE "poisoned"
             /\ hostPc' = IF W.outcome = "hang" THEN hostPc ELSE "dead"
    /\ UNCHANGED <<asset, script_command_events, callback, drains, motionVars, loadVars>>

\* The loop is over: the function returns and the guard is dropped.
PscUnlock ==
    /\ fault = "none"
    /\ hostPc = "psc"
    /\ pending = <<>>
    /\ lock' = "free"
    /\ hostPc' = "idle"
    /\ UNCHANGED <<dialogueVars, fault, script_commands, pending,
                   script_command_events, callback, appended, delivered, drains,
                   nested, worldVars, motionVars, loadVars>>

\* A dialogue whose Start node is a script that starts another dialogue.
ScriptedAsset ==
    DialogueAssetInit(
        <<DialogueNode("Start", RubyBody("ScriptCore.start_dialogue('Greet')")),
          DialogueNode("", EndBody),
          DialogueNode("Greet", TextBody("Hello"))>>)

QueueAssets == {C1Asset, ScriptedAsset}

\* Native calls made by scripts evaluated outside a drain.
QueueCalls ==
    {StartDialogueCall("Start"), StartDialogueCall("Greet"),
     UpdateCall("biggem", <<Prop("visible", TRUE), Prop("collectable", TRUE)>>),
     UpdateCall("gem", <<Prop("collectable", FALSE)>>)}

QueueInit ==
    /\ asset \in QueueAssets
    /\ dialogue = DialogueDefault
    /\ lastCall = NoCall
    /\ fault = "none"
    /\ QueueEmpty
    /\ WorldStart
    /\ MotionStart

QueueNext ==
    \/ \E c \in Callbacks, call \in QueueCalls : CallbackEnter(c, call)
    \/ \E c \in Callbacks : CallbackPush(c)
    \/ \E c \in Callbacks : CallbackReturn(c)
    \/ RunonceLock
    \/ RunonceDrain
    \/ ProcessScriptCommandEvents
    \/ PscLock
    \/ PscApply
    \/ PscUnlock

SpecQueue == QueueInit /\ [][QueueNext]_vars

--------------------------------------------------------------------------
\* Claims about the script command queue.

\* C3: a drain yields exactly the commands appended since the previous drain,
\* in append order, and leaves the queue empty; so N appends followed by a
\* drain yield those N commands, and a drain that follows at once yields
\* none.
C3_DrainYieldsAppendsInOrder ==
    \A i \in 1..Len(drains) :
        /\ drains[i].taken = drains[i].expected
        /\ drains[i].rest = <<>>

\* Two or more commands were drained, by either host path, and the drain
\* that followed with no append in between took nothing.
C3_Witness ==
    \E i \in 1..Len(drains) :
        /\ Len(drains[i].taken) >= 2
        /\ drains[i].taken[1] # drains[i].taken[2]
        /\ i + 1 <= Len(drains)
        /\ drains[i + 1].expected = <<>>
        /\ drains[i + 1].taken = <<>>

\* At most one party is inside the queue's critical section.
MutualExclusion ==
    /\ \A c \in Callbacks : callback[c].pc = "locked" => lock = c
    /\ hostPc \in {"runonce", "psc"} => lock = "host"

\* C22: every call of a script-callable native function appends exactly one
\* command to SCRIPT_COMMANDS, whatever its arguments: a call that has
\* nothing left to push and is about to return has appended one command.
C22_OneCommandPerCall ==
    \A c \in Callbacks :
        (callback[c].pc = "locked" /\ callback[c].todo = <<>>)
            => callback[c].pushed = 1

--------------------------------------------------------------------------
\* Characters moving among colliders, and what their overlaps do.

MaxFrames == 2      \* frames simulated

WalkSpeed == 1      \* Config::walk_speed
RunSpeed == 2       \* Config::run_speed

\* Game::is_in_dialogue
is_in_dialogue(ui) == ui = Some("MovementDisabled")

\* Vec2::normalize of a velocity whose components are -1, 0 or 1.
Normalize(v) ==
    IF v.x # 0 /\ v.y # 0 THEN Vec(v.x * DiagUnit, v.y * DiagUnit)
    ELSE Vec(v.x * VelUnit, v.y * VelUnit)

\* The velocity handle_movement_input_system derives from the active
\* actions: Down overrides Up, Right overrides Left.
KeyVelocity(keys) ==
    LET y == IF "Down" \in keys THEN -1 ELSE IF "Up" \in keys THEN 1 ELSE 0
        x == IF "Right" \in keys THEN 1 ELSE IF "Left" \in keys THEN -1 ELSE 0
    IN  IF x = 0 /\ y = 0 THEN Zero ELSE Normalize(Vec(x, y))

KeySpeed(keys) == IF "Walk" \in keys THEN WalkSpeed ELSE RunSpeed

\* velocity.abs_diff_eq(Vec2::zero(), VELOCITY_EPSILON): the epsilon is far
\* below one fixed-point unit.
IsZeroVelocity(v) == v.x = 0 /\ v.y = 0

\* delta = velocity * time.delta_seconds() * movement_speed
Delta(v, dt, speed) == Vec(v.x * dt * speed, v.y * dt * speed)

\* Collider::bounding_volume_with_translation
bounding_volume_with_translation(e, global, delta) ==
    LET cx == global.x + delta.x + ColliderOffset(e).x
        cy == global.y + delta.y + ColliderOffset(e).y
    IN  [mins |-> Vec(cx - HalfExtent(e).x, cy - HalfExtent(e).y),
         maxs |-> Vec(cx + HalfExtent(e).x, cy + HalfExtent(e).y)]

\* Collider::bounding_volume
bounding_volume(e, global) == bounding_volume_with_translation(e, global, Zero)

\* AABB::intersects: touching boxes intersect.
AabbIntersects(a, b) ==
    /\ a.mins.x <= b.maxs.x /\ b.mins.x <= a.maxs.x
    /\ a.mins.y <= b.maxs.y /\ b.mins.y <= a.maxs.y

\* Mutant: the empty behavior set is not checked.
MutIntersectNoEmptyCheck(bs, e, global, other) ==
    IF ~AabbIntersects(bounding_volume(e, global), other) THEN None
    ELSE Some([behaviors |-> bs])

\* Collider::intersect
Intersect(bs, e, global, other) ==
    IF bs = {} THEN None
    ELSE IF ~AabbIntersects(bounding_volume(e, global), other) THEN None
    ELSE Some([behaviors |-> bs])

\* Collision::is_obstruction
is_obstruction(c) == \E b \in c.behaviors : b.tag = "Obstruct"

\* The three cases continous_move_character_system matches on, for the
\* result of Collider::intersect: no result, a collision that obstructs,
\* any other collision.
CollisionKind(r) ==
    IF r = None THEN "Nil"
    ELSE IF is_obstruction(r[1]) THEN "Obstruction"
    ELSE "Interaction"

\* The behaviors that put a collider on the list of colliders to switch off
\* after the step.
QueuesIgnore(bs) == \E b \in bs : b.tag = "Collect"

\* A collider set to ignore: it carries no behavior any more.
Ignored == {}

\* ItemInteraction::new
ItemInteraction(actor, object, bs) ==
    [actor |-> actor, object |-> object, behaviors |-> bs]

\* The owner-map test: colliders of another map are skipped.
InScope(c) == owner_map[c] = None \/ owner_map[c][1] = CurrentMap

\* Mutant: no collider is skipped.
MutSkippedNever(a, c) == FALSE

\* The colliders the loop of character a passes over before intersecting:
\* those of another map and the character's own.
Skipped(a, c) == ~InScope(c) \/ c = a

\* The order a query visits the live entities in.
VisitOrders == {"ascending", "descending"}
VisitOrder(order) ==
    LET all == IF order = "ascending" THEN <<"A1", "A2", "K1", "K2">>
               ELSE <<"K2", "K1", "A2", "A1">>
    IN  SelectSeq(all, LAMBDA e : e \notin despawned)

\* Mutant: the loop does not stop at an obstruction and lets later
\* interactions replace it.
RECURSIVE MutVisitCollidersNoStop(_, _, _, _)
MutVisitCollidersNoStop(a, char_aabb, todo, M) ==
    IF todo = <<>> THEN M
    ELSE LET c == Head(todo)
             r == Intersect(behaviors[c], c, position[c], char_aabb)
             k == CollisionKind(r)
         IN  IF Skipped(a, c) \/ k = "Nil"
             THEN MutVisitCollidersNoStop(a, char_aabb, Tail(todo), M)
             ELSE MutVisitCollidersNoStop(a, char_aabb, Tail(todo),
                      [M EXCEPT !.char_collision =
                                    [kind |-> k, behaviors |-> r[1].behaviors]])

\* The loop over collider_query for one character.  The GlobalTransform of
\* a collider is where it was when the frame started.
RECURSIVE VisitColliders(_, _, _, _)
VisitColliders(a, char_aabb, todo, M) ==
    IF todo = <<>> THEN M
    ELSE LET c == Head(todo)
             r == Intersect(behaviors[c], c, position[c], char_aabb)
             k == CollisionKind(r)
         IN  IF Skipped(a, c) \/ k = "Nil"
             THEN VisitColliders(a, char_aabb, Tail(todo), M)
             ELSE IF k = "Obstruction"
             THEN [M EXCEPT !.char_collision =
                                [kind |-> k, behaviors |-> r[1].behaviors]]
             ELSE VisitColliders(a, char_aabb, Tail(todo),
                      [M EXCEPT
                          !.interaction_colliders =
                              IF QueuesIgnore(r[1].behaviors) THEN @ \cup {c} ELSE @,
                          !.events = Append(@, ItemInteraction(a, c, r[1].behaviors)),
                          !.char_collision =
                              IF @.kind = "Nil"
                              THEN [kind |-> k, behaviors |-> r[1].behaviors]
                              ELSE @])

\* Collision::is_solid
is_solid(c) == c.kind = "Obstruction"

\* Mutant: only the x axis is committed.
MutCommitOnlyX(p, delta, e) == [p EXCEPT !.x = @ + delta.x]

\* Mutant: x and y are committed, z is left as it was.
MutCommitKeepsZ(p, delta, e) == [p EXCEPT !.x = @ + delta.x, !.y = @ + delta.y]

\* The committed move of one character.
CommitMove(p, delta, e) ==
    [x |-> p.x + delta.x,
     y |-> p.y + delta.y,
     z |-> z_from_y(p.y + delta.y + ColliderOffset(e).y)]

\* One pass of the outer loop: what the step does for character a.
MoveCharacter(a, dt, todo) ==
    LET delta == Delta(velocity[a], dt, movement_speed[a])
        char_aabb == bounding_volume_with_translation(a, position[a], delta)
        M == VisitColliders(a, char_aabb, todo,
                 [char_collision |-> NoCollision, events |-> <<>>,
                  interaction_colliders |-> {}])
    IN  IF IsZeroVelocity(velocity[a])
        THEN [position |-> position[a], collision |-> collision[a],
              events |-> <<>>, interaction_colliders |-> {}, used |-> NoMove]
        ELSE [position |-> IF ~is_solid(M.char_collision)
                           THEN CommitMove(position[a], delta, a)
                           ELSE position[a],
              collision |-> M.char_collision,
              events |-> M.events,
              interaction_colliders |-> M.interaction_colliders,
              used |-> [active |-> TRUE, velocity |-> velocity[a],
                        speed |-> movement_speed[a], dt |-> dt, delta |-> delta]]

RECURSIVE EventsOfAll(_, _, _)
EventsOfAll(chars, dt, todo) ==
    IF chars = <<>> THEN <<>>
    ELSE MoveCharacter(Head(chars), dt, todo).events
         \o EventsOfAll(Tail(chars), dt, todo)

\* What the players may press in a frame.
KeyChoices(a) ==
    IF a = "A1"
    THEN {{}, {"Right", "Walk"}, {"Up", "Right", "Walk"}, {"Up", "Right"}}
    ELSE {{}, {"Left", "Walk"}, {"Left"}}

KeyAssignments ==
    {keys \in [Actors -> UNION {KeyChoices(a) : a \in Actors}] :
        \A a \in Actors : keys[a] \in KeyChoices(a)}

\* time.delta_seconds() of a frame.
FrameTimes == {0, 1}

\* handle_movement_input_system
HandleMovementInput(keys) ==
    /\ fault = "none"
    /\ framePc = "input"
    /\ frames < MaxFrames
    /\ IF in_progress(dialogue) /\ is_in_dialogue(dialogue_ui)
       THEN UNCHANGED <<velocity, movement_speed>>
       ELSE /\ velocity' = [a \in Actors |-> KeyVelocity(keys[a])]
            /\ movement_speed' = [a \in Actors |-> KeySpeed(keys[a])]
    /\ inputLog' = [inputLog EXCEPT
                       !.keys = keys,
                       !.applied = ~(in_progress(dialogue) /\ is_in_dialogue(dialogue_ui))]
    /\ framePc' = "move"
    /\ UNCHANGED <<dialogueVars, fault, queueVars, worldVars, dialogue_ui,
                   owner_map, object_name, despawned, position, collision, interactions,
                   frames, preMove, lastMove, sent, collects, removals, triggered,
                   dispatched, collider_dialogue,
                   loadVars>>

\* continous_move_character_system
MoveStep(dt, order) ==
    /\ fault = "none"
    /\ framePc = "move"
    /\ LET todo == VisitOrder(order)
           chars == SelectSeq(todo, LAMBDA e : e \in Actors)
           done == [a \in Actors |-> MoveCharacter(a, dt, todo)]
           off == UNION {done[a].interaction_colliders : a \in Actors}
           evs == EventsOfAll(chars, dt, todo)
       IN  /\ position' = [e \in Entities |->
                              IF e \in Actors THEN done[e].position ELSE position[e]]
           /\ collision' = [a \in Actors |-> done[a].collision]
           /\ behaviors' = [e \in Entities |->
                               IF e \in off THEN Ignored ELSE behaviors[e]]
           /\ interactions' = interactions \o evs
           /\ sent' = evs
           /\ lastMove' = [a \in Actors |-> done[a].used]
    /\ preMove' = [position |-> position, behaviors |-> behaviors,
                   despawned |-> despawned]
    /\ framePc' = "items"
    /\ UNCHANGED <<dialogueVars, fault, queueVars, is_visible, dialogue_ui,
                   owner_map, object_name, despawned, velocity, movement_speed, frames,
                   collects, removals, triggered, dispatched,
                   collider_dialogue, inputLog,
                   loadVars>>

\* The native calls made by the script that a player's collect trigger runs
\* for a map object: collecting the gem reveals the big gem.
TriggerCalls(name) ==
    IF name = "gem"
    THEN <<UpdateCall("biggem", <<Prop("visible", TRUE), Prop("collectable", TRUE)>>)>>
    ELSE <<>>

\* process_script_commands run to completion on the host thread.
ProcessScriptCommands(S) ==
    LET r == DrainAll(S.w.script_commands)
        W == ApplyAll([S.w EXCEPT !.script_commands = r.rest], r.taken, TRUE)
    IN  [S EXCEPT
            !.w = W,
            !.delivered = @ \o r.taken,
            !.drains = Append(@, [taken |-> r.taken, rest |-> r.rest,
                                  expected |-> SinceLastDrainOf(S.w.appended, S.drains)])]

\* One step of a Collect arm, for the history: the despawn command, the
\* evaluation of the collect trigger, the removal of the Collect behavior.
CollectStep(object, step) == [object |-> object, step |-> step]

\* The Collect arm of items_system for one interaction.
CollectArm(S, ev) ==
    LET exists == ev.object \in DOMAIN is_visible /\ ev.object \notin despawned
        pushes == AllPushes(TriggerCalls(ObjectName(ev.object)), 1)
        S1 == [S EXCEPT !.requested = @ \cup {ev.object},
                        !.removals[ev.object] = @ + 1,
                        !.log = Append(@, CollectStep(ev.object, "despawn"))]
        S2 == IF exists /\ ev.actor \in Actors
              THEN [S1 EXCEPT !.w.script_commands = PushAll(@, pushes),
                              !.w.appended = @ \o pushes,
                              !.collects[ev.object] = @ + 1,
                              !.log = Append(@, CollectStep(ev.object, "trigger"))]
              ELSE S1
        S3 == IF exists THEN ProcessScriptCommands(S2) ELSE S2
    IN  IF exists /\ S3.w.outcome = "ok"
        THEN [S3 EXCEPT !.w.behaviors[ev.object] = remove_behavior(@, Collect),
                        !.log = Append(@, CollectStep(ev.object, "remove_behavior"))]
        ELSE S3

\* The loop of items_system over the interactions it has not read yet.
RECURSIVE ItemsLoop(_, _)
ItemsLoop(S, evs) ==
    IF evs = <<>> \/ S.w.outcome # "ok" THEN S
    ELSE ItemsLoop(IF Collect \in Head(evs).behaviors
                   THEN CollectArm(S, Head(evs)) ELSE S,
                   Tail(evs))

\* How the process ends when a loop stopped early.
FaultsOf(outcome) ==
    CASE outcome = "ok" -> {"none"}
      [] outcome = "relock" -> {"deadlock", "panic"}
      [] OTHER -> {outcome}

\* items_system, and the despawn commands applied when its stage ends.
\* `next` is the system that runs after it and `rest` what other readers of
\* the ItemInteraction events have not read yet; the frame is complete when
\* the input system is next.
ItemsRun(next, rest) ==
    /\ fault = "none"
    /\ framePc = "items"
    /\ CanLock(lock)
    /\ LET S == ItemsLoop([w |-> Here, delivered |-> delivered, drains |-> drains,
                           collects |-> collects, removals |-> removals,
                           requested |-> {}, log |-> <<>>],
                          interactions)
       IN  /\ Commit(S.w)
           /\ delivered' = S.delivered
           /\ drains' = S.drains
           /\ collects' = S.collects
           /\ removals' = S.removals
           /\ dispatched' = S.log
           /\ UNCHANGED <<collider_dialogue, inputLog, loadVars>>
           /\ despawned' = despawned \cup S.requested
           /\ fault' \in FaultsOf(S.w.outcome)
    /\ interactions' = rest
    /\ framePc' = next
    /\ frames' = IF next = "input" THEN frames + 1 ELSE frames
    /\ UNCHANGED <<asset, lock, hostPc, pending, script_command_events, callback,
                   dialogue_ui, owner_map, object_name, position, velocity, movement_speed,
                   collision, preMove, lastMove, sent, triggered>>

ItemsStep == ItemsRun("input", <<>>)

\* A behavior that shows a notice.
Notice == Behavior("Dialogue", "Greet", "Notice", TRUE)

\* The map objects as setup_map_objects_system and later SetCollectable
\* commands leave them: a gem is collectable if it is visible and may show a
\* notice; any other named object obstructs, and a script may have made it
\* collectable too.
FirstObjectSetups ==
    {[name |-> "gem", behaviors |-> {Collect}, visible |-> TRUE],
     [name |-> "gem", behaviors |-> {}, visible |-> FALSE],
     [name |-> "gem", behaviors |-> {Collect, Notice}, visible |-> TRUE],
     [name |-> "rock", behaviors |-> {Obstruct}, visible |-> TRUE],
     [name |-> "rock", behaviors |-> {Obstruct, Collect}, visible |-> TRUE]}
SecondObjectSetups ==
    {[name |-> "biggem", behaviors |-> {}, visible |-> FALSE, map |-> "m1"],
     [name |-> "biggem", behaviors |-> {Collect}, visible |-> TRUE, map |-> "m1"],
     [name |-> "rock", behaviors |-> {Obstruct}, visible |-> FALSE, map |-> "m2"]}

MotionInit ==
    /\ asset = C1Asset
    /\ dialogue = DialogueDefault
    /\ lastCall = NoCall
    /\ fault = "none"
    /\ QueueEmpty
    /\ \E g \in FirstObjectSetups, b \in SecondObjectSetups :
        /\ behaviors = [e \in Entities |->
                           IF e \in Actors THEN {Obstruct}
                           ELSE IF e = "K1" THEN g.behaviors ELSE b.behaviors]
        /\ is_visible = [e \in Items |-> IF e = "K1" THEN g.visible ELSE b.visible]
        /\ owner_map = [e \in Entities |->
                           IF e \in Actors THEN None
                           ELSE IF e = "K1" THEN Some(CurrentMap) ELSE Some(b.map)]
        /\ object_name = [e \in Items |-> IF e = "K1" THEN g.name ELSE b.name]
    /\ CharactersIdle

MotionNext ==
    \/ \E keys \in KeyAssignments : HandleMovementInput(keys)
    \/ \E dt \in FrameTimes, order \in VisitOrders : MoveStep(dt, order)
    \/ ItemsStep

SpecMotion == MotionInit /\ [][MotionNext]_vars

--------------------------------------------------------------------------
\* The interaction dispatcher: trigger_dialogue_or_script_system.

MaxInteractions == 2    \* ItemInteractions waiting when the system runs

\* Script behaviors: one that works, one that raises, one that does not parse.
ScriptGreets == Behavior("Ruby", "ScriptCore.start_dialogue('Greet')", "", FALSE)
ScriptRaises == Behavior("Ruby", RuntimeErrorCode, "", FALSE)
ScriptBadSyntax == Behavior("Ruby", ParseErrorCode, "", FALSE)

\* A dialogue behavior that waits for the player's Accept.
Ask == Behavior("Dialogue", "Greet", "MovementDisabled", FALSE)

\* The behavior sets an interaction of this model carries.
TriggerBehaviorSets ==
    {{Collect}, {ScriptGreets}, {ScriptRaises}, {ScriptRaises, ScriptGreets},
     {ScriptBadSyntax, Notice}, {ScriptRaises, Notice, Collect}}

\* HashSet::iter visits the behaviors of an interaction in an order the
\* program does not control: one order and its reverse.
BehaviorOrders == {"forward", "backward"}
BehaviorList ==
    <<Collect, Notice, Ask, ScriptGreets, ScriptRaises, ScriptBadSyntax,
      Load("void"), Load("cave"), Load(CurrentMap)>>

RECURSIVE Reverse(_)
Reverse(q) == IF q = <<>> THEN <<>> ELSE Append(Reverse(Tail(q)), Head(q))

IterBehaviors(bs, order) ==
    LET fwd == SelectSeq(BehaviorList, LAMBDA b : b \in bs)
    IN  IF order = "forward" THEN fwd ELSE Reverse(fwd)

\* What the system works on while it loops.
TriggerStart ==
    [dialogue |-> dialogue, lastCall |-> lastCall, dialogue_ui |-> dialogue_ui,
     script_commands |-> script_commands, appended |-> appended,
     visits |-> <<>>, outcome |-> "ok"]

Visit(i, b, did) == [event |-> i, behavior |-> b, did |-> did]

\* Mutant: the dispatcher sets the dialogue UI whatever begin_optional
\* returned.
MutTriggerArmSetsUi(T, i, b) ==
    IF b.tag = "Dialogue" /\ b.auto
    THEN LET r == BeginOptional(asset, T.dialogue, b.arg) IN
         [T EXCEPT
            !.dialogue = r.res.d,
            !.lastCall = Called("begin_optional", b.arg, r.ret, r.res, T.dialogue),
            !.dialogue_ui = Some(b.ui),
            !.visits = Append(@, Visit(i, b, IF r.ret THEN "begin" ELSE "missing")),
            !.outcome = r.res.outcome]
    ELSE [T EXCEPT !.visits = Append(@, Visit(i, b, "nothing"))]

\* One arm of the match on a behavior of interaction i.
TriggerArm(T, i, b) ==
    CASE b.tag = "Dialogue" ->
            IF ~b.auto THEN [T EXCEPT !.visits = Append(@, Visit(i, b, "skip"))]
            ELSE LET r == BeginOptional(asset, T.dialogue, b.arg) IN
                 [T EXCEPT
                    !.dialogue = r.res.d,
                    !.lastCall = Called("begin_optional", b.arg, r.ret, r.res, T.dialogue),
                    !.dialogue_ui = IF r.ret /\ r.res.outcome = "ok"
                                    THEN Some(b.ui) ELSE @,
                    !.visits = Append(@, Visit(i, b, IF r.ret THEN "begin" ELSE "missing")),
                    !.outcome = r.res.outcome]
      [] b.tag = "Ruby" ->
            LET r == eval_repl_code_logging_result(b.arg)
                pushes == AllPushes(r.calls, 1)
            IN  [T EXCEPT
                    !.script_commands = PushAll(@, pushes),
                    !.appended = @ \o pushes,
                    !.visits = Append(@, Visit(i, b, r.log)),
                    !.outcome = r.outcome]
      [] OTHER -> [T EXCEPT !.visits = Append(@, Visit(i, b, "nothing"))]

\* The inner loop, over the behaviors of interaction i.
RECURSIVE TriggerBehaviors(_, _, _)
TriggerBehaviors(T, i, bseq) ==
    IF bseq = <<>> \/ T.outcome # "ok" THEN T
    ELSE TriggerBehaviors(TriggerArm(T, i, Head(bseq)), i, Tail(bseq))

\* The outer loop, over the interactions from the i-th on.
RECURSIVE TriggerEvents(_, _, _, _)
TriggerEvents(T, evs, i, order) ==
    IF i > Len(evs) \/ T.outcome # "ok" THEN T
    ELSE TriggerEvents(
             TriggerBehaviors(T, i, IterBehaviors(evs[i].behaviors, order)),
             evs, i + 1, order)

\* trigger_dialogue_or_script_system; `next` is the system that runs after
\* it and `rest` what other readers of the events have not read yet.
TriggerRun(order, next, rest) ==
    /\ fault = "none"
    /\ framePc = "trigger"
    /\ CanLock(lock)
    /\ LET T == TriggerEvents(TriggerStart, interactions, 1, order) IN
       /\ dialogue' = T.dialogue
       /\ lastCall' = T.lastCall
       /\ dialogue_ui' = T.dialogue_ui
       /\ script_commands' = T.script_commands
       /\ appended' = T.appended
       /\ triggered' = [events |-> interactions, visits |-> T.visits,
                        before |-> dialogue_ui, after |-> T.dialogue_ui]
       /\ fault' = IF T.outcome = "ok" THEN "none" ELSE T.outcome
    /\ interactions' = rest
    /\ framePc' = next
    /\ UNCHANGED <<asset, lock, hostPc, pending, script_command_events, callback,
                   delivered, drains, nested, worldVars, owner_map, object_name,
                   despawned, position, velocity, movement_speed, collision,
                   frames, preMove, lastMove, sent, collects, removals, dispatched,
                   collider_dialogue, inputLog,
                   loadVars>>

TriggerStep(order) == TriggerRun(order, "input", <<>>)

\* Dialogue assets whose first script node fails.
RaisingAsset ==
    DialogueAssetInit(<<DialogueNode("Greet", RubyBody(RuntimeErrorCode)),
                        DialogueNode("", TextBody("Hello")),
                        DialogueNode("", EndBody)>>)
BadSyntaxAsset ==
    DialogueAssetInit(<<DialogueNode("Greet", RubyBody(ParseErrorCode)),
                        DialogueNode("", RubyBody("ScriptCore.inc")),
                        DialogueNode("", EndBody)>>)
TriggerAssets == {C1Asset, RaisingAsset, BadSyntaxAsset}

\* The interactions a movement step left for the system.
TriggerInteractions ==
    UNION {[1..n -> {ItemInteraction("A1", k, bs) :
                        k \in {"K1"}, bs \in TriggerBehaviorSets}] :
           n \in 1..MaxInteractions}

\* A frame whose movement step has sent interactions, the dispatcher next.
TriggerInit ==
    /\ asset \in TriggerAssets
    /\ dialogue = DialogueDefault
    /\ lastCall = NoCall
    /\ fault = "none"
    /\ QueueEmpty
    /\ WorldStart
    /\ owner_map = [e \in Entities |-> IF e \in Actors THEN None ELSE Some(CurrentMap)]
    /\ object_name = [e \in Items |-> IF e = "K1" THEN "gem" ELSE "biggem"]
    /\ CharactersAtRest
    /\ interactions \in TriggerInteractions
    /\ framePc = "trigger"

TriggerNext ==
    \/ \E order \in BehaviorOrders : TriggerStep(order)
    \/ DoAdvance

SpecTrigger == TriggerInit /\ [][TriggerNext]_vars

--------------------------------------------------------------------------
\* The dispatch part of a frame: the movement step has sent its
\* interactions, trigger_dialogue_or_script_system and items_system read
\* them, and the host then drains SCRIPT_COMMANDS.

FrameBehaviorSets ==
    {{Collect}, {ScriptGreets}, {Notice}, {Ask}, {Collect, ScriptGreets}}

\* Both players can touch the gem in one frame.
FrameInteractions ==
    UNION {[1..n -> {ItemInteraction(a, "K1", bs) :
                        a \in Actors, bs \in FrameBehaviorSets}] :
           n \in 1..MaxInteractions}

FrameInit ==
    /\ asset \in TriggerAssets
    /\ dialogue = DialogueDefault
    /\ lastCall = NoCall
    /\ fault = "none"
    /\ QueueEmpty
    /\ WorldStart
    /\ owner_map = [e \in Entities |-> IF e \in Actors THEN None ELSE Some(CurrentMap)]
    /\ object_name = [e \in Items |-> IF e = "K1" THEN "gem" ELSE "biggem"]
    /\ CharactersAtRest
    /\ interactions \in FrameInteractions
    /\ framePc = "trigger"

\* The two readers of the frame's interactions, the dispatcher first.
FrameTrigger(order) == TriggerRun(order, "items", interactions)
FrameItems == ItemsRun("drain", <<>>)

\* The host's drain point of the frame, in a frame after the first one
\* (start_dialogue_shown is set): in_game_start_runonce drains
\* SCRIPT_COMMANDS into ScriptCommandEvents and drops the lock, and
\* process_script_commands_system applies every event.
DrainPoint ==
    /\ fault = "none"
    /\ framePc = "drain"
    /\ CanLock(lock)
    /\ LET r == DrainAll(script_commands)
           W == ApplyAll([Here EXCEPT !.script_commands = r.rest], r.taken, FALSE)
       IN  /\ Commit(W)
           /\ delivered' = delivered \o r.taken
           /\ drains' = Append(drains, DrainRecord(r))
           /\ fault' = IF W.outcome = "ok" THEN "none" ELSE W.outcome
    /\ script_command_events' = <<>>
    /\ framePc' = "input"
    /\ frames' = frames + 1
    /\ UNCHANGED <<asset, lock, hostPc, pending, callback, dialogue_ui, owner_map,
                   object_name, despawned, position, velocity, movement_speed,
                   collision, interactions, preMove, lastMove, sent, collects,
                   removals, triggered, dispatched, collider_dialogue, inputLog,
                   loadVars>>

\* handle_dialogue_input_system.  Every actor is a player with a
\* DialogueActor (players.rs 61); current_dialogue is the one Dialogue.

\* What the system works on while it loops over the players.
InputStart ==
    [dialogue |-> dialogue, lastCall |-> lastCall, dialogue_ui |-> dialogue_ui,
     steps |-> <<>>, outcome |-> "ok"]

\* One call the system made on the dialogue, for the history: the call, the
\* node name and ui_type of the spec it came from, what begin_optional
\* returned, and whether the dialogue was InProgress when the player's
\* Accept was looked at.
InputStep(op, arg, ui, ret, was) ==
    [op |-> op, arg |-> arg, ui |-> ui, ret |-> ret, in_progress |-> was]

\* The loop over the dialogue actors, from the i-th on: the first actor whose
\* collider_dialogue begins a dialogue ends the loop.
RECURSIVE TriggerColliderDialogue(_, _, _)
TriggerColliderDialogue(H, actors, pre) ==
    IF actors = <<>> \/ H.outcome # "ok" THEN H
    ELSE LET spec == collider_dialogue[Head(actors)] IN
         IF spec = None THEN TriggerColliderDialogue(H, Tail(actors), pre)
         ELSE LET r == BeginOptional(asset, H.dialogue, spec[1].arg)
                  H1 == [H EXCEPT
                            !.dialogue = r.res.d,
                            !.lastCall = Called("accept", spec[1].arg, r.ret, r.res, pre),
                            !.dialogue_ui = IF r.ret /\ r.res.outcome = "ok"
                                            THEN Some(spec[1].ui) ELSE @,
                            !.steps = Append(@, InputStep("begin_optional", spec[1].arg,
                                                          spec[1].ui, r.ret,
                                                          in_progress(H.dialogue))),
                            !.outcome = r.res.outcome]
              IN  IF r.ret THEN H1
                  ELSE TriggerColliderDialogue(H1, Tail(actors), pre)

\* The body of the loop for one player whose Accept action is active.
AcceptPressed(H) ==
    IF in_progress(H.dialogue)
    THEN LET res == Advance(asset, H.dialogue) IN
         [H EXCEPT !.dialogue = res.d,
                   !.lastCall = Called("advance", "", TRUE, res, H.dialogue),
                   !.steps = Append(@, InputStep("advance", "", "", TRUE,
                                                 in_progress(H.dialogue))),
                   !.outcome = res.outcome]
    ELSE TriggerColliderDialogue(
             [H EXCEPT !.lastCall = Called("accept", "", FALSE,
                                           CallResult(H.dialogue, <<>>, <<>>, "ok"),
                                           H.dialogue)],
             <<"A1", "A2">>, H.dialogue)

RECURSIVE InputPlayers(_, _, _)
InputPlayers(H, players, accepting) ==
    IF players = <<>> \/ H.outcome # "ok" THEN H
    ELSE InputPlayers(IF Head(players) \in accepting THEN AcceptPressed(H) ELSE H,
                      Tail(players), accepting)

\* The system in a frame in which the players of `accepting` press Accept.
HandleDialogueInput(accepting) ==
    /\ fault = "none"
    /\ framePc = "input"
    /\ dialogue.current_index < MaxIndex
    /\ LET H == InputPlayers(InputStart, <<"A1", "A2">>, accepting) IN
       /\ dialogue' = H.dialogue
       /\ lastCall' = H.lastCall
       /\ dialogue_ui' = H.dialogue_ui
       /\ inputLog' = [inputLog EXCEPT !.steps = H.steps, !.before = dialogue_ui,
                                       !.after = H.dialogue_ui]
       /\ fault' = IF H.outcome = "ok" THEN "none" ELSE H.outcome
    /\ UNCHANGED <<asset, queueVars, worldVars, owner_map, object_name, despawned,
                   position, velocity, movement_speed, collision, interactions,
                   framePc, frames, preMove, lastMove, sent, collects, removals,
                   triggered, dispatched, collider_dialogue,
                   loadVars>>

FrameNext ==
    \/ \E order \in BehaviorOrders : FrameTrigger(order)
    \/ FrameItems
    \/ DrainPoint
    \/ \E accepting \in (SUBSET Actors) \ {{}} : HandleDialogueInput(accepting)

SpecFrame == FrameInit /\ [][FrameNext]_vars

--------------------------------------------------------------------------
\* The input systems in the frame loop: the dispatcher has read what the
\* last movement step sent; then, frame by frame, the players' Accept and
\* movement input is read, the characters move, and items_system reads the
\* interactions of the move.

\* A notice that waits for the player's Accept.
AskNotice == Behavior("Dialogue", "Greet", "Notice", FALSE)

\* DialogueActor.collider_dialogue is a public field of a component: the
\* dialogue the player is colliding with and could trigger, if any.
ColliderDialogues == {None, Some(Ask), Some(AskNotice)}

\* Dialogue assets for the greeting: one that ends with an End node, one
\* whose last node is its text, one with two texts, one that has no node
\* of that name.
EndedAsset ==
    DialogueAssetInit(<<DialogueNode("Greet", TextBody("Hello")),
                        DialogueNode("", EndBody)>>)
OpenAsset == DialogueAssetInit(<<DialogueNode("Greet", TextBody("Hello"))>>)
LongAsset ==
    DialogueAssetInit(<<DialogueNode("Greet", TextBody("Hello")),
                        DialogueNode("", TextBody("Bye")),
                        DialogueNode("", EndBody)>>)
OtherAsset ==
    DialogueAssetInit(<<DialogueNode("Start", TextBody("Hello")),
                        DialogueNode("", EndBody)>>)
InputAssets == {EndedAsset, OpenAsset, LongAsset, OtherAsset}

\* What the last movement step left for the dispatcher.
InputInteractions == {<<>>, <<ItemInteraction("A1", "K1", {Notice})>>}

\* What the players press in a frame: the first player walks to the right
\* or lets go.
InputKeys == {[a \in Actors |-> {}],
              [a \in Actors |-> IF a = "A1" THEN {"Right", "Walk"} ELSE {}]}

InputInit ==
    /\ asset \in InputAssets
    /\ dialogue = DialogueDefault
    /\ lastCall = NoCall
    /\ fault = "none"
    /\ QueueEmpty
    /\ WorldStart
    /\ owner_map = [e \in Entities |-> IF e \in Actors THEN None ELSE Some(CurrentMap)]
    /\ object_name = [e \in Items |-> IF e = "K1" THEN "gem" ELSE "biggem"]
    /\ CharactersStill
    /\ collider_dialogue \in [Actors -> ColliderDialogues]
    /\ interactions \in InputInteractions
    /\ framePc = "trigger"

InputNext ==
    \/ \E order \in BehaviorOrders : TriggerStep(order)
    \/ \E accepting \in (SUBSET Actors) \ {{}} : HandleDialogueInput(accepting)
    \/ \E keys \in InputKeys : HandleMovementInput(keys)
    \/ \E order \in VisitOrders : MoveStep(1, order)
    \/ ItemsStep

SpecInput == InputInit /\ [][InputNext]_vars

--------------------------------------------------------------------------
\* The drain point with one command in the queue.  SCRIPT_COMMANDS is a
\* public Vec<ScriptCommand>: the queue holds any command value.

ApplyNames == {"gem", "biggem", "rock"}
ApplyCommands ==
    {SetVisible(n, b) : n \in ApplyNames, b \in BOOLEAN}
    \cup {SetCollectable(n, b) : n \in ApplyNames, b \in BOOLEAN}
    \cup {StartDialogueIfExists(n) : n \in {"Greet", "Start"}}

ApplyInit ==
    /\ asset \in {EndedAsset, OtherAsset}
    /\ dialogue = DialogueDefault
    /\ lastCall = NoCall
    /\ fault = "none"
    /\ \E c \in ApplyCommands : script_commands = <<c>> /\ appended = <<c>>
    /\ lock = "free"
    /\ hostPc = "idle"
    /\ pending = <<>>
    /\ script_command_events = <<>>
    /\ callback = [c \in Callbacks |-> CallbackIdle]
    /\ delivered = <<>>
    /\ drains = <<>>
    /\ nested = [attempted |-> 0, completed |-> 0]
    /\ \E first \in {{Collect}, {}}, second \in {{}, {Collect, Notice}} :
          behaviors = [e \in Entities |->
                          IF e \in Actors THEN {Obstruct}
                          ELSE IF e = "K1" THEN first ELSE second]
    /\ is_visible \in [Items -> BOOLEAN]
    /\ owner_map = [e \in Entities |-> IF e \in Actors THEN None ELSE Some(CurrentMap)]
    /\ object_name \in {[e \in Items |-> "gem"],
                        [e \in Items |-> IF e = "K1" THEN "gem" ELSE "biggem"]}
    /\ CharactersAtRest
    /\ interactions = <<>>
    /\ framePc = "drain"

ApplyNext == DrainPoint

SpecApply == ApplyInit /\ [][ApplyNext]_vars

\* The level loader: trigger_level_load_system.

LoadCave == Load("cave")
LoadHome == Load(CurrentMap)
LoadVoid == Load("void")

\* The levels that have a file under assets/maps.
LevelFiles == {CurrentMap, "cave"}

\* Mutant: the file check always succeeds.
MutLevelAlwaysResolves(path) == TRUE

\* fs::metadata(asset_path).is_ok() for the level of a Load behavior.
LevelResolves(path) == path \in LevelFiles

\* What the system works on while it loops.
LevelLoadStart ==
    [app_state |-> app_state, current_map |-> current_map,
     loaded_maps |-> loaded_maps, map_containers |-> map_containers,
     to_load |-> to_load, visits |-> <<>>]

\* The part of it that a load changes.
LoadState(L) ==
    [app_state |-> L.app_state, current_map |-> L.current_map,
     loaded_maps |-> L.loaded_maps, map_containers |-> L.map_containers,
     to_load |-> L.to_load]

LoadVisit(i, b, did, before, after) ==
    [event |-> i, behavior |-> b, did |-> did, before |-> before, after |-> after]

\* load_next_map: spawns the container of the current map unless the map
\* is loaded already.
load_next_map(L) ==
    IF L.current_map \in L.loaded_maps THEN L
    ELSE [L EXCEPT !.map_containers = @ \cup {L.current_map},
                   !.loaded_maps = @ \cup {L.current_map}]

\* The Load arm once the file exists and the state change was accepted.
BeginLevelLoad(L, path, st) ==
    LET L1 == [L EXCEPT !.app_state = st,
                        !.current_map = path,
                        !.to_load.handles = @ \cup {path}]
        L2 == load_next_map(L1)
    IN  [L2 EXCEPT !.to_load.next_state = "InGame",
                   !.to_load.next_dialogue = Some(path)]

\* One arm of the match on a behavior of interaction i.  The state change
\* is requested only when the file exists.
LevelLoadArm(L, i, b) ==
    LET setr == StateSet(L.app_state, "Loading")
        L1 == IF b.tag # "Load" THEN L
              ELSE IF LevelResolves(b.arg) /\ setr.ok
              THEN BeginLevelLoad(L, b.arg, setr.state)
              ELSE L
        did == IF b.tag # "Load" THEN "nothing"
               ELSE IF LevelResolves(b.arg) /\ setr.ok THEN "loading"
               ELSE "couldn't load"
    IN  [L1 EXCEPT !.visits =
            Append(@, LoadVisit(i, b, did, LoadState(L), LoadState(L1)))]

RECURSIVE LevelLoadBehaviors(_, _, _)
LevelLoadBehaviors(L, i, bseq) ==
    IF bseq = <<>> THEN L
    ELSE LevelLoadBehaviors(LevelLoadArm(L, i, Head(bseq)), i, Tail(bseq))

RECURSIVE LevelLoadEvents(_, _, _, _)
LevelLoadEvents(L, evs, i, order) ==
    IF i > Len(evs) THEN L
    ELSE LevelLoadEvents(
             LevelLoadBehaviors(L, i, IterBehaviors(evs[i].behaviors, order)),
             evs, i + 1, order)

\* trigger_level_load_system: it runs before the systems labelled "main"
\* and reads the interactions without consuming them for the others.
TriggerLevelLoad(order) ==
    /\ fault = "none"
    /\ framePc = "load"
    /\ LET L == LevelLoadEvents(LevelLoadStart, interactions, 1, order) IN
       /\ app_state' = L.app_state
       /\ current_map' = L.current_map
       /\ loaded_maps' = L.loaded_maps
       /\ map_containers' = L.map_containers
       /\ to_load' = L.to_load
       /\ levelLoads' = [events |-> interactions, visits |-> L.visits,
                         waits |-> IF \E k \in 1..Len(L.visits) : L.visits[k].did = "loading"
                                   THEN <<>> ELSE levelLoads.waits]
    /\ UNCHANGED setupVars
    /\ framePc' = "trigger"
    /\ UNCHANGED <<dialogueVars, fault, queueVars, worldVars, dialogue_ui,
                   owner_map, object_name, despawned, position, velocity,
                   movement_speed, collision, interactions, frames, preMove,
                   lastMove, sent, collects, removals, triggered, dispatched,
                   collider_dialogue, inputLog>>

LoadBehaviorSets ==
    {{LoadCave}, {LoadVoid}, {LoadHome}, {LoadVoid, LoadCave}, {LoadVoid, Collect}}

\* The interactions a movement step left for the frame.
LoadInteractions ==
    UNION {[1..n -> {ItemInteraction("A1", "K1", bs) : bs \in LoadBehaviorSets}] :
           n \in 1..MaxInteractions}

\* A frame whose movement step has sent interactions, the level loader next.
LoadInit ==
    /\ asset = C1Asset
    /\ dialogue = DialogueDefault
    /\ lastCall = NoCall
    /\ fault = "none"
    /\ QueueEmpty
    /\ WorldStart
    /\ owner_map = [e \in Entities |-> IF e \in Actors THEN None ELSE Some(CurrentMap)]
    /\ object_name = [e \in Items |-> IF e = "K1" THEN "gem" ELSE "biggem"]
    /\ CharactersAtRest
    /\ interactions \in LoadInteractions
    /\ framePc = "load"

LoadNext ==
    \/ \E order \in BehaviorOrders : TriggerLevelLoad(order)
    \/ FrameNext

SpecLoad == LoadInit /\ [][LoadNext]_vars

--------------------------------------------------------------------------
\* The Loading state: wait_for_asset_loading_system runs every frame until
\* the assets are loaded and no map is pending, wait_for_map_ready_system
\* clears a pending map when the map is ready.

MaxLoadFrames == 3      \* frames spent in the Loading state per load

\* AssetServer::get_group_load_state of the tracked handles, as far as the
\* system tells the outcomes apart.
GroupLoadStates == {"Loading", "Loaded"}

\* LoadProgress::reset
LoadProgressReset(lp) == [lp EXCEPT !.handles = {}, !.next_dialogue = None]

\* One run of the system, for the history: the load state it saw, the
\* begin_optional(next_dialogue) it made if any, the pending maps it found,
\* and whether it changed the state.
LoadWait(ls, began, containers, transition) ==
    [load_state |-> ls, began |-> began, containers |-> containers,
     transition |-> transition]

\* The load states the asset server can report in this frame: an empty
\* group is loaded, and assets once loaded stay loaded.
LoadStatesNow ==
    IF to_load.handles = {} THEN {"Loaded"}
    ELSE IF /\ levelLoads.waits # <<>>
            /\ levelLoads.waits[Len(levelLoads.waits)].load_state = "Loaded"
    THEN {"Loaded"}
    ELSE GroupLoadStates

\* Whether a run that sees load state ls begins next_dialogue.
BeginsNextDialogue(ls) == ls = "Loaded" /\ to_load.next_dialogue # None

\* wait_for_asset_loading_system, run while the state is Loading.
WaitForAssetLoading(ls) ==
    /\ fault = "none"
    /\ app_state.current = "Loading"
    /\ app_state.scheduled = None
    /\ Len(levelLoads.waits) < MaxLoadFrames
    /\ ls \in LoadStatesNow
    /\ LET r == IF BeginsNextDialogue(ls)
                THEN BeginOptional(asset, dialogue, to_load.next_dialogue[1])
                ELSE [ret |-> FALSE, res |-> CallResult(dialogue, <<>>, <<>>, "ok")]
           leave == ls = "Loaded" /\ r.res.outcome = "ok" /\ map_containers = {}
           setr == StateSet(app_state, to_load.next_state)
       IN  /\ dialogue' = r.res.d
           /\ lastCall' = IF BeginsNextDialogue(ls)
                          THEN Called("begin_optional", to_load.next_dialogue[1],
                                      r.ret, r.res, dialogue)
                          ELSE lastCall
           /\ app_state' = IF leave /\ setr.ok THEN setr.state ELSE app_state
           /\ to_load' = IF leave /\ setr.ok THEN LoadProgressReset(to_load) ELSE to_load
           /\ fault' = IF r.res.outcome # "ok" THEN r.res.outcome
                       ELSE IF leave /\ ~setr.ok THEN "panic"
                       ELSE "none"
           /\ levelLoads' = [levelLoads EXCEPT !.waits =
                                Append(@, LoadWait(ls, BeginsNextDialogue(ls),
                                                   map_containers, leave /\ setr.ok))]
    /\ UNCHANGED <<asset, queueVars, worldVars, motionVars, current_map, loaded_maps,
                   map_containers, setupVars>>

\* wait_for_map_ready_system for the MapReadyEvent of map m: the map's
\* container stops blocking the transition.
WaitForMapReady(m) ==
    /\ fault = "none"
    /\ m \in map_containers
    /\ map_containers' = map_containers \ {m}
    /\ UNCHANGED <<dialogueVars, fault, queueVars, worldVars, motionVars, app_state,
                   current_map, loaded_maps, to_load, levelLoads, setupVars>>

\* The scheduled state change takes effect before the systems of the next
\* frame run.
StateTransition ==
    /\ fault = "none"
    /\ app_state.scheduled # None
    /\ app_state' = AppStateIn(app_state.scheduled[1])
    /\ UNCHANGED <<dialogueVars, fault, queueVars, worldVars, motionVars,
                   current_map, loaded_maps, map_containers, to_load, levelLoads,
                   setupVars>>

\* A dialogue asset with a node named after the level.
CaveAsset ==
    DialogueAssetInit(<<DialogueNode("cave", TextBody("Hello")),
                        DialogueNode("", EndBody)>>)

LoadingInit ==
    /\ asset \in {C1Asset, CaveAsset}
    /\ dialogue = DialogueDefault
    /\ lastCall = NoCall
    /\ fault = "none"
    /\ QueueEmpty
    /\ WorldStart
    /\ owner_map = [e \in Entities |-> IF e \in Actors THEN None ELSE Some(CurrentMap)]
    /\ object_name = [e \in Items |-> IF e = "K1" THEN "gem" ELSE "biggem"]
    /\ CharactersAtRest
    /\ interactions \in LoadInteractions
    /\ framePc = "load"

LoadingNext ==
    \/ \E order \in BehaviorOrders : TriggerLevelLoad(order)
    \/ StateTransition
    \/ \E ls \in GroupLoadStates : WaitForAssetLoading(ls)
    \/ \E m \in LevelFiles : WaitForMapReady(m)

SpecLoading == LoadingInit /\ [][LoadingNext]_vars

\* Map object setup: setup_map_objects_system.

\* PropertyValue
StringValue(s) == [type |-> "String", value |-> s]
BoolValue(b) == [type |-> "Bool", value |-> b]
Property(k, v) == [key |-> k, value |-> v]

\* DialogueSpec and DialogueSpec::default()
DialogueSpec(node_name, ui_type, auto_display) ==
    [node_name |-> node_name, ui_type |-> ui_type, auto_display |-> auto_display]
DialogueSpecDefault == DialogueSpec("", "MovementDisabled", FALSE)

\* ColliderBehavior::Dialogue(spec)
DialogueBehavior(spec) ==
    Behavior("Dialogue", spec.node_name, spec.ui_type, spec.auto_display)

\* What the loop over the properties collects.
PropsStart ==
    [has_dialogue |-> FALSE, auto_display_override |-> None,
     dialogue_spec |-> DialogueSpecDefault]

\* The body of the loop for one property.
ReadProperty(P, k, v) ==
    CASE k = "dialogue" /\ v.type = "String" ->
            [P EXCEPT !.has_dialogue = TRUE,
                      !.dialogue_spec = DialogueSpec(v.value, "MovementDisabled", FALSE)]
      [] k = "notice" /\ v.type = "String" ->
            [P EXCEPT !.has_dialogue = TRUE,
                      !.dialogue_spec = DialogueSpec(v.value, "Notice", TRUE)]
      [] k = "autodisplay" /\ v.type = "Bool" ->
            [P EXCEPT !.auto_display_override = Some(v.value)]
      [] OTHER -> P

RECURSIVE ReadProperties(_, _)
ReadProperties(P, props) ==
    IF props = <<>> THEN P
    ELSE ReadProperties(ReadProperty(P, Head(props).key, Head(props).value),
                        Tail(props))

\* Mutant: the override is applied whatever the UI type.
MutOverrideAnyUi(spec, b) == [spec EXCEPT !.auto_display = b]

\* The match on the UI type once an override was read: a dialogue with
\* MovementDisabled UI only gets a warning.
OverrideAutoDisplay(spec, b) ==
    IF spec.ui_type = "Notice" THEN [spec EXCEPT !.auto_display = b] ELSE spec

\* The Dialogue behavior of an object, if its properties ask for one.
DialogueBehaviors(props) ==
    LET P == ReadProperties(PropsStart, props) IN
    IF ~P.has_dialogue THEN {}
    ELSE IF P.auto_display_override = None
    THEN {DialogueBehavior(P.dialogue_spec)}
    ELSE {DialogueBehavior(
              OverrideAutoDisplay(P.dialogue_spec, P.auto_display_override[1]))}

\* The match on the object's name; a name "load:<path>" gives the path.
LoadPathOf(name) == IF name = "load:cave" THEN Some("cave") ELSE None
NamedBehaviors(name, object) ==
    CASE name \in {"spawn", "trigger"} -> {}
      [] name \in {"biggem", "gem"} -> IF object.visible THEN {Collect} ELSE {}
      [] LoadPathOf(name) # None -> {Load(LoadPathOf(name)[1])}
      [] OTHER -> {Obstruct}

\* What the system works on while it reads the events.
SetupStart ==
    [behaviors |-> behaviors, is_visible |-> is_visible,
     entity_visibility |-> entity_visibility, components |-> components]

\* The body of the loop for the ObjectReadyEvent of entity e.
SetupObject(U, e) ==
    IF "Collider" \in components[e] THEN U
    ELSE LET object == objects[e]
             known == U.entity_visibility[e]
             default == object.visible /\ ~object.is_shape
             visible == IF known # None THEN known[1] ELSE default
             hide == owner_map[e] # Some(current_map) \/ ~visible
             debuggable ==
                 /\ object_name[e] \notin {"spawn", "trigger", "biggem", "gem"}
                 /\ LoadPathOf(object_name[e]) = None
                 /\ object.is_shape
         IN  [U EXCEPT
                !.entity_visibility[e] = IF known # None THEN @ ELSE Some(default),
                !.is_visible[e] = IF hide THEN FALSE ELSE @,
                !.behaviors[e] = DialogueBehaviors(object.props)
                                     \cup NamedBehaviors(object_name[e], object),
                !.components[e] =
                    ((IF hide THEN @ \ {"Draw"} ELSE @)
                        \cup (IF debuggable THEN {"Debuggable"} ELSE {}))
                        \cup {"Collider"}]

RECURSIVE SetupObjects(_, _)
SetupObjects(U, evs) ==
    IF evs = <<>> THEN U ELSE SetupObjects(SetupObject(U, Head(evs)), Tail(evs))

\* setup_map_objects_system, reading the events that are waiting.
SetupMapObjects ==
    /\ fault = "none"
    /\ object_ready # <<>>
    /\ LET U == SetupObjects(SetupStart, object_ready) IN
       /\ behaviors' = U.behaviors
       /\ is_visible' = U.is_visible
       /\ entity_visibility' = U.entity_visibility
       /\ components' = U.components
    /\ object_ready' = <<>>
    /\ UNCHANGED <<dialogueVars, fault, queueVars, motionVars, app_state,
                   current_map, loaded_maps, map_containers, to_load,
                   levelLoads, objects>>

\* bevy_tiled spawns the objects of a map and sends their ObjectReadyEvents.
ObjectsReady(evs) ==
    /\ fault = "none"
    /\ object_ready = <<>>
    /\ \A i \in 1..Len(evs) : "Collider" \notin components[evs[i]]
    /\ object_ready' = evs
    /\ UNCHANGED <<dialogueVars, fault, queueVars, worldVars, motionVars,
                   app_state, current_map, loaded_maps, map_containers, to_load,
                   levelLoads, objects, entity_visibility, components>>

\* The property lists of the first object: any of dialogue, notice and
\* autodisplay, in any iteration order, autodisplay also with a value that
\* is not a boolean.
SetupPropValues ==
    {Property("dialogue", StringValue("Greet")),
     Property("notice", StringValue("Greet")),
     Property("autodisplay", BoolValue(TRUE)),
     Property("autodisplay", BoolValue(FALSE)),
     Property("autodisplay", StringValue("yes"))}
SetupProps ==
    {props \in UNION {[1..n -> SetupPropValues] : n \in 0..3} :
        \A i, j \in 1..Len(props) : i # j => props[i].key # props[j].key}

SetupEventOrders == {<<"K1">>, <<"K2">>, <<"K1", "K2">>, <<"K2", "K1">>}

\* Freshly spawned map objects without colliders.
SetupInit ==
    /\ asset = C1Asset
    /\ dialogue = DialogueDefault
    /\ lastCall = NoCall
    /\ fault = "none"
    /\ QueueEmpty
    /\ behaviors = [e \in Entities |-> IF e \in Actors THEN {Obstruct} ELSE {}]
    /\ is_visible = [e \in Items |-> TRUE]
    /\ owner_map = [e \in Entities |->
                       IF e \in Actors THEN None
                       ELSE IF e = "K1" THEN Some(CurrentMap) ELSE Some("m2")]
    /\ \E name \in {"gem", "sign"} :
           object_name = [e \in Items |-> IF e = "K1" THEN name ELSE "load:cave"]
    /\ dialogue_ui = None
    /\ despawned = {}
    /\ position = [e \in Entities |-> StartPosition(e)]
    /\ velocity = [a \in Actors |-> Zero]
    /\ movement_speed = [a \in Actors |-> 0]
    /\ collision = [a \in Actors |-> NoCollision]
    /\ frames = 0
    /\ preMove = [position |-> position, behaviors |-> behaviors, despawned |-> {}]
    /\ lastMove = [a \in Actors |-> NoMove]
    /\ sent = <<>>
    /\ collects = [e \in Entities |-> 0]
    /\ removals = [e \in Entities |-> 0]
    /\ triggered = NoTrigger
    /\ dispatched = <<>>
    /\ collider_dialogue = [a \in Actors |-> None]
    /\ inputLog = NoInput
    /\ interactions = <<>>
    /\ framePc = "input"
    /\ app_state = AppStateIn("Loading")
    /\ current_map = CurrentMap
    /\ loaded_maps = {CurrentMap}
    /\ map_containers = {}
    /\ to_load = LoadProgress({CurrentMap}, "InGame", None)
    /\ levelLoads = NoLevelLoads
    /\ \E props \in SetupProps, visible \in BOOLEAN :
           objects = [e \in Items |->
                         IF e = "K1" THEN Object(visible, FALSE, props)
                         ELSE Object(TRUE, TRUE, <<Property("notice", StringValue("Greet"))>>)]
    /\ object_ready = <<>>
    /\ \E known \in {None, Some(TRUE), Some(FALSE)} :
           entity_visibility = [e \in Items |-> IF e = "K1" THEN known ELSE None]
    /\ components = [e \in Items |-> {"Draw"}]

SetupNext ==
    \/ \E evs \in SetupEventOrders : ObjectsReady(evs)
    \/ SetupMapObjects

SpecSetup == SetupInit /\ [][SetupNext]_vars

--------------------------------------------------------------------------
\* Claims about movement and interactions.  They are stated over the last
\* movement step: the world it started in (preMove), the velocity, speed
\* and frame time it used (lastMove), the events it sent (sent).

\* velocity * dt * speed of the last step of actor a.
StepDelta(a) ==
    Vec(lastMove[a].velocity.x * lastMove[a].dt * lastMove[a].speed,
        lastMove[a].velocity.y * lastMove[a].dt * lastMove[a].speed)

\* The actor's volume displaced by its delta.
PredictiveVolume(a) ==
    bounding_volume_with_translation(a, preMove.position[a], StepDelta(a))

\* The live, in-scope colliders other than a's own whose volume the
\* predictive volume of a overlapped.
Overlapped(a) ==
    {c \in Entities \ (preMove.despawned \cup {a}) :
        /\ InScope(c)
        /\ AabbIntersects(bounding_volume(c, preMove.position[c]),
                          PredictiveVolume(a))}

Carries(c, tag) == \E b \in preMove.behaviors[c] : b.tag = tag

EventsFor(a, c) ==
    Cardinality({i \in 1..Len(sent) : sent[i].actor = a /\ sent[i].object = c})

\* C6: an actor whose predictive volume overlaps an in-scope collider that
\* carries Obstruct is where it was before the step, whatever else it
\* overlaps and in whatever order the colliders were visited.
C6_ObstructBlocks ==
    \A a \in Actors :
        (\E c \in Overlapped(a) : Carries(c, "Obstruct"))
            => position[a] = preMove.position[a]

\* An actor with a nonzero delta overlapped an Obstruct collider and a
\* Collect collider, the Collect collider was visited first and got its
\* event, and the actor stayed.
C6_Witness ==
    \E a \in Actors :
        /\ lastMove[a].active
        /\ StepDelta(a) # Zero
        /\ \E c, d \in Overlapped(a) :
            /\ Carries(c, "Obstruct")
            /\ Carries(d, "Collect") /\ ~Carries(d, "Obstruct")
            /\ EventsFor(a, d) = 1
        /\ position[a] = preMove.position[a]

\* C7: an actor that moves and whose predictive volume overlaps no collider
\* carrying Obstruct ends at its previous position plus
\* velocity * dt * speed, on both axes.
C7_FreeMoveIsExact ==
    \A a \in Actors :
        (lastMove[a].active /\ ~\E c \in Overlapped(a) : Carries(c, "Obstruct"))
            => /\ position[a].x = preMove.position[a].x + StepDelta(a).x
               /\ position[a].y = preMove.position[a].y + StepDelta(a).y

\* A diagonal move at run speed across two Collect colliders.
C7_Witness ==
    \E a \in Actors :
        /\ lastMove[a].active
        /\ lastMove[a].speed = RunSpeed
        /\ StepDelta(a).x # 0 /\ StepDelta(a).y # 0
        /\ Cardinality(Overlapped(a)) >= 2
        /\ \A c \in Overlapped(a) : Carries(c, "Collect") /\ ~Carries(c, "Obstruct")
        /\ position[a].x = preMove.position[a].x + StepDelta(a).x
        /\ position[a].y = preMove.position[a].y + StepDelta(a).y

\* C8: in one movement step of an actor, every in-scope collider that
\* carries behaviors and overlaps the predictive volume gets exactly one
\* Interaction event for that actor.
C8_OneEventPerOverlap ==
    \A a \in Actors :
        lastMove[a].active =>
            \A c \in Overlapped(a) :
                preMove.behaviors[c] # {} => EventsFor(a, c) = 1

\* C9: a collider with an empty behavior set yields no intersect result for
\* any actor's predictive volume, overlapping or not; no event names it, and
\* an actor that overlaps only such colliders is not blocked.
C9_EmptyColliderIsInert ==
    \A a \in Actors :
        /\ \A c \in Entities \ preMove.despawned :
              preMove.behaviors[c] = {} =>
                  /\ Intersect(preMove.behaviors[c], c, preMove.position[c],
                               PredictiveVolume(a)) = None
                  /\ \A i \in 1..Len(sent) : sent[i].object # c
        /\ (lastMove[a].active
            /\ \A c \in Overlapped(a) : preMove.behaviors[c] = {})
               => /\ collision[a].kind = "Nil"
                  /\ position[a].x = preMove.position[a].x + StepDelta(a).x
                  /\ position[a].y = preMove.position[a].y + StepDelta(a).y

\* An actor moved into the volume of a collider that carries nothing.
C9_Witness ==
    \E a \in Actors :
        /\ lastMove[a].active
        /\ StepDelta(a) # Zero
        /\ \E c \in Overlapped(a) : preMove.behaviors[c] = {}
        /\ \A c \in Overlapped(a) : preMove.behaviors[c] = {}
        /\ position[a] # preMove.position[a]

\* C10: the collect effect of a collider, the removal request of its entity
\* and the collect trigger, happens at most once.
C10_CollectAtMostOnce ==
    \A e \in Entities : collects[e] <= 1 /\ removals[e] <= 1

--------------------------------------------------------------------------
\* Claims about the interaction dispatcher.

\* The visits of the last run to behavior b of interaction i.
VisitsOf(i, b) ==
    {k \in 1..Len(triggered.visits) :
        triggered.visits[k].event = i /\ triggered.visits[k].behavior = b}

\* The visits of the last run that evaluated this script behavior.
EvaluationsOf(b) ==
    {k \in 1..Len(triggered.visits) : triggered.visits[k].behavior = b}

\* C20: a failing script evaluation aborts only that script.  When the code
\* of a script behavior raises or does not parse, the error is logged and
\* the dispatcher goes on: every behavior of every interaction of the frame
\* is still visited exactly once, and the scripts that work still push
\* their commands.  When the code of a script node of a dialogue fails, the
\* dialogue still moves on by one index and continues with the node that
\* follows.  Nothing of this takes the program down.
C20_ScriptErrorAbortsOnlyThatScript ==
    /\ fault = "none"
    /\ framePc # "trigger" =>
          /\ \A i \in 1..Len(triggered.events) :
                \A b \in triggered.events[i].behaviors :
                    Cardinality(VisitsOf(i, b)) = 1
          /\ \A k \in 1..Len(triggered.visits) :
                LET v == triggered.visits[k] IN
                /\ v.event \in 1..Len(triggered.events)
                /\ v.behavior \in triggered.events[v.event].behaviors
                /\ v.behavior.tag = "Ruby" =>
                      v.did = IF eval_repl_code(v.behavior.arg).result.ok
                              THEN "result" ELSE "error"
          /\ appended =
                [k \in 1..Cardinality(EvaluationsOf(ScriptGreets)) |->
                    StartDialogueIfExists("Greet")]
    /\ Executed =>
          LET sc == lastCall.scripts
              n == Len(sc)
          IN  \A i \in 1..n :
                  ~InterpreterEval(sc[i].code).ok =>
                      IF i < n
                      THEN sc[i + 1].index = LandsFrom(sc[i].index + 1)
                      ELSE dialogue.current_index = LandsFrom(sc[n].index + 1)

\* The first interaction of a frame carried a script that raises, a notice
\* and Collect; the script was visited first and failed, the notice then
\* began a dialogue whose first script node raises too and which went on to
\* its Text node, and the second interaction of the frame was dispatched.
C20_Witness ==
    /\ framePc # "trigger"
    /\ asset = RaisingAsset
    /\ Len(triggered.events) = 2
    /\ Len(triggered.visits) >= 3
    /\ triggered.visits[1] = Visit(1, ScriptRaises, "error")
    /\ triggered.visits[2] = Visit(1, Notice, "begin")
    /\ triggered.visits[Len(triggered.visits)].event = 2
    /\ lastCall.op = "begin_optional"
    /\ lastCall.scripts = <<[index |-> 0, code |-> RuntimeErrorCode]>>
    /\ lastCall.events = <<TextEvent("Hello")>>
    /\ dialogue.current_index = 1
    /\ dialogue_ui = Some("Notice")

\* C23: the host drains the whole command queue exactly once per frame and
\* applies every drained command: when a frame is complete there has been
\* one drain for it, every command a script of the frame appended has been
\* delivered and applied, and the queue is empty.
C23_OneDrainPerFrame ==
    (framePc = "input" /\ fault = "none") =>
        /\ Len(drains) = frames
        /\ delivered = appended
        /\ script_commands = <<>>
        /\ script_command_events = <<>>

\* The positions in the history of the last items_system run at which the
\* given step of a Collect arm was taken for the given object.
StepsOf(object, step) ==
    {i \in 1..Len(dispatched) : dispatched[i] = CollectStep(object, step)}

\* C24: when a Collect behavior is dispatched, the Collect behavior is removed
\* from the source collider before the despawn of the source entity is
\* requested, and before any further interaction of the same run is
\* dispatched: every despawn request for an object comes after a removal of
\* its Collect behavior, and the collect trigger is evaluated at most once per
\* object in a run.
C24_CollectStrippedBeforeDespawn ==
    \A e \in Items :
        /\ \A i \in StepsOf(e, "despawn") :
               \E j \in StepsOf(e, "remove_behavior") : j < i
        /\ Cardinality(StepsOf(e, "trigger")) <= 1

\* The visits of the last dispatcher run that met a Dialogue behavior.
DialogueVisits ==
    {k \in 1..Len(triggered.visits) : triggered.visits[k].behavior.tag = "Dialogue"}

\* C25: dispatching a Dialogue behavior whose auto_display is true attempts
\* begin_optional on the dialogue in that dispatch.  When auto_display is
\* false the dispatch changes no dialogue, emits no dialogue event and
\* leaves the spec recorded on the actor as collider_dialogue, so that a
\* later Accept of a player, with no dialogue in progress, begins it.
C25_DialogueDispatch ==
    /\ \A k \in DialogueVisits :
           LET v == triggered.visits[k] IN
           IF v.behavior.auto
           THEN v.did \in {"begin", "missing"}
           ELSE /\ v.did = "skip"
                /\ collider_dialogue[triggered.events[v.event].actor]
                       = Some(v.behavior)
    /\ (/\ framePc = "items"
        /\ triggered.visits # <<>>
        /\ \A k \in 1..Len(triggered.visits) : triggered.visits[k].did = "skip")
           => /\ dialogue = DialogueDefault
              /\ lastCall = NoCall
              /\ dialogue_ui = None
    /\ (/\ lastCall.op = "accept"
        /\ \E k \in DialogueVisits :
               /\ ~triggered.visits[k].behavior.auto
               /\ has_node(asset, triggered.visits[k].behavior.arg))
           => lastCall.ret

\* The visits of the last level loader run that met a Load behavior whose
\* level has no file.
UnresolvedLoads ==
    {k \in 1..Len(levelLoads.visits) :
        /\ levelLoads.visits[k].behavior.tag = "Load"
        /\ levelLoads.visits[k].behavior.arg \notin LevelFiles}

RECURSIVE BehaviorCount(_)
BehaviorCount(evs) ==
    IF evs = <<>> THEN 0
    ELSE Cardinality(Head(evs).behaviors) + BehaviorCount(Tail(evs))

\* C26: dispatching a Load behavior whose level does not resolve is a
\* no-op that stops nothing: the application state, the current map, the
\* loaded maps, the spawned map containers and the load progress are after
\* the dispatch what they were before it, no fault is raised, and the loader
\* goes on to visit every behavior of every interaction.
C26_UnresolvedLoadIsNoOp ==
    /\ \A k \in UnresolvedLoads :
           /\ levelLoads.visits[k].after = levelLoads.visits[k].before
           /\ levelLoads.visits[k].did = "couldn't load"
    /\ Len(levelLoads.visits) = BehaviorCount(levelLoads.events)
    /\ (UnresolvedLoads # {} /\ framePc = "trigger") => fault = "none"

\* Witness: an unresolved Load was dispatched and a Load visited after it
\* started loading its level.
C26_Witness ==
    \E k \in UnresolvedLoads :
        \E j \in 1..Len(levelLoads.visits) :
            /\ k < j
            /\ levelLoads.visits[j].did = "loading"
            /\ current_map = "cave"
            /\ app_state.scheduled = Some("Loading")

\* The live colliders carrying behaviors whose volume the predictive volume
\* of a overlapped, whatever map they belong to and a's own included.
Touched(a) ==
    {c \in Entities \ preMove.despawned :
        /\ preMove.behaviors[c] # {}
        /\ AabbIntersects(bounding_volume(c, preMove.position[c]),
                          PredictiveVolume(a))}

\* C27: in a movement step only colliders of the current map, other than
\* the actor's own, contribute: every event names such a collider and never
\* the actor itself, an overlap result stored on an actor is the behavior set
\* of such a collider that it overlapped, and an actor is held back only when
\* it overlapped such a collider carrying Obstruct.
C27_OnlyOtherCollidersInScope ==
    /\ \A i \in 1..Len(sent) :
           /\ sent[i].actor # sent[i].object
           /\ InScope(sent[i].object)
    /\ \A a \in Actors :
           lastMove[a].active =>
               /\ collision[a].kind # "Nil" =>
                      \E c \in Overlapped(a) :
                          collision[a].behaviors = preMove.behaviors[c]
               /\ (~\E c \in Overlapped(a) : Carries(c, "Obstruct")) =>
                      /\ position[a].x = preMove.position[a].x + StepDelta(a).x
                      /\ position[a].y = preMove.position[a].y + StepDelta(a).y

\* An actor moved although its predictive volume overlapped its own
\* Obstruct collider and a rock of another map.
C27_Witness ==
    \E a \in Actors :
        /\ lastMove[a].active
        /\ StepDelta(a) # Zero
        /\ a \in Touched(a)
        /\ \E c \in Touched(a) : ~InScope(c) /\ Carries(c, "Obstruct")
        /\ position[a] # preMove.position[a]
        /\ collision[a].kind = "Nil"

\* C28: after a movement step of an actor with a nonzero delta, the
\* overlap result stored on the actor is the union of the behaviors of all
\* in-scope colliders, other than its own, that its predictive volume
\* overlapped in that step, and is empty when it overlapped none.
C28_OverlapResultIsUnion ==
    \A a \in Actors :
        (lastMove[a].active /\ StepDelta(a) # Zero) =>
            collision[a].behaviors =
                UNION {preMove.behaviors[c] : c \in Overlapped(a)}

\* C29: a movement step of an actor whose delta has zero length, be it for
\* a zero velocity, a zero speed or a zero frame time, sends no interaction
\* for that actor and leaves its position as it was, whatever the actor's
\* volume overlaps.
C29_ZeroDeltaIsInert ==
    \A a \in Actors :
        StepDelta(a) = Zero =>
            /\ \A i \in 1..Len(sent) : sent[i].actor # a
            /\ position[a] = preMove.position[a]

\* Claims about the setup of map objects.

\* The objects that got their collider from the setup system.
SetUp == {e \in Items : "Collider" \in components[e] /\ object_ready = <<>>}

\* The boolean autodisplay property of an object, if it has one.
AutodisplayOf(e) ==
    LET at == {i \in 1..Len(objects[e].props) :
                  /\ objects[e].props[i].key = "autodisplay"
                  /\ objects[e].props[i].value.type = "Bool"}
    IN  IF at = {} THEN None
        ELSE Some(objects[e].props[CHOOSE i \in at : TRUE].value.value)

DialogueBehaviorsOf(e) == {b \in behaviors[e] : b.tag = "Dialogue"}

\* C30 as the specification states it: a boolean autodisplay property
\* decides auto_display of the Dialogue behavior for the dialogue key and the
\* notice key alike, and without it auto_display is false for dialogue and
\* true for notice.
C30_AutodisplayOverrides ==
    \A e \in SetUp : \A b \in DialogueBehaviorsOf(e) :
        IF AutodisplayOf(e) # None
        THEN b.auto = AutodisplayOf(e)[1]
        ELSE b.auto = (b.ui = "Notice")

\* C30, amended: a boolean autodisplay property decides auto_display of the
\* Dialogue behavior made from a notice property only; the behavior made
\* from a dialogue property has auto_display false whatever autodisplay
\* says.  Without a boolean autodisplay, auto_display is false for dialogue
\* and true for notice.
C30_AutodisplayOverridesNotice ==
    \A e \in SetUp : \A b \in DialogueBehaviorsOf(e) :
        IF b.ui = "Notice"
        THEN b.auto = (IF AutodisplayOf(e) # None THEN AutodisplayOf(e)[1] ELSE TRUE)
        ELSE b.auto = FALSE

\* An object with a dialogue property and autodisplay = true was set up,
\* and its Dialogue behavior has auto_display false.
C30_Witness ==
    \E e \in SetUp :
        /\ AutodisplayOf(e) = Some(TRUE)
        /\ \E i \in 1..Len(objects[e].props) : objects[e].props[i].key = "dialogue"
        /\ DialogueBehaviorsOf(e) = {Behavior("Dialogue", "Greet", "MovementDisabled", FALSE)}

\* Claims about depth, dialogue and input.

\* The y values the depth function is compared on.
DepthRange == -6..6

BeganNamed ==
    /\ lastCall.op \in {"begin", "begin_optional"}
    /\ lastCall.ret
    /\ has_node(asset, lastCall.arg)

\* C32: begin(name) with a name of the asset's name map overrides whatever
\* the instance was doing: the events it sends and the instance it leaves
\* are those of begin(name) on a fresh instance, whatever index, override
\* and ended flag the instance had.  Any call that takes an instance from
\* InProgress to Ended has reached an End node and sent End last.
C32_BeginOverrides ==
    /\ BeganNamed =>
           LET fresh == Begin(asset, DialogueDefault, lastCall.arg) IN
           /\ lastCall.events = fresh.events
           /\ dialogue = fresh.d
           /\ (fault = "none") = (fresh.outcome = "ok")
    /\ (lastCall.op # "none" /\ in_progress(lastCall.pre) /\ ~in_progress(dialogue))
           => /\ dialogue.current_index < Len(asset.nodes)
              /\ asset.nodes[dialogue.current_index + 1].body.kind = "End"
              /\ lastCall.events # <<>>
              /\ lastCall.events[Len(lastCall.events)] = EndEvent

\* begin(name) on an InProgress instance that stood elsewhere with a
\* pending index override: it now shows the text of the named node and
\* the override is gone.
C32_Witness ==
    /\ BeganNamed
    /\ lastCall.op = "begin"
    /\ in_progress(lastCall.pre)
    /\ lastCall.pre.next_index # None
    /\ lastCall.pre.current_index # dialogue.current_index
    /\ fault = "none"
    /\ Len(lastCall.events) = 1
    /\ lastCall.events[1].type = "Text"
    /\ dialogue.next_index = None

\* The movement input system is kept from running its loop: some dialogue
\* is InProgress and the dialogue UI disables movement.
MovementBlocked == in_progress(dialogue) /\ is_in_dialogue(dialogue_ui)

\* The dialogue has run to its finish: it reached an End node, or its index
\* is past the last node.
Finished == dialogue.is_end \/ dialogue.current_index >= Len(asset.nodes)

AdvanceSteps ==
    {i \in DOMAIN inputLog.steps : inputLog.steps[i].op = "advance"}

\* C35: in one frame the current dialogue is advanced at most once, however
\* many players press Accept; a player's Accept on an InProgress dialogue
\* advances it and begins nothing, and a collider dialogue is begun only
\* when the current dialogue is not InProgress.
C35_OneAdvancePerFrame ==
    /\ Cardinality(AdvanceSteps) <= 1
    /\ \A i \in DOMAIN inputLog.steps :
           LET step == inputLog.steps[i] IN
           /\ step.in_progress => step.op = "advance"
           /\ step.op = "begin_optional" => ~step.in_progress

\* The dialogue UI after a run that began dialogues with the given UI
\* types, in this order: that of the last one begun, or what it was.
UiAfter(begun, ui) == IF begun = <<>> THEN ui ELSE Some(begun[Len(begun)].ui)

\* The specs for which begin_optional returned true in the last run of the
\* dispatcher, and in the last run of the Accept handler.
BegunByDispatch ==
    LET visits == SelectSeq(triggered.visits, LAMBDA v : v.did = "begin")
    IN  [k \in 1..Len(visits) |-> visits[k].behavior]
BegunByAccept ==
    SelectSeq(inputLog.steps, LAMBDA st : st.op = "begin_optional" /\ st.ret)

C37_WitnessMissing ==
    /\ fault = "none"
    /\ \E k \in 1..Len(triggered.visits) : triggered.visits[k].did = "missing"
    /\ \E k \in 1..Len(inputLog.steps) : ~inputLog.steps[k].ret
    /\ dialogue_ui = None

\* The map objects a command names.
Named(name) == {e \in Items : e \notin despawned /\ ObjectName(e) = name}

\* What the claim says of the step that applies command c.
C38_Effect(c) ==
    CASE c.cmd = "SetVisible" ->
            /\ \A e \in Items :
                   is_visible'[e] = IF e \in Named(c.name) THEN c.flag ELSE is_visible[e]
            /\ behaviors' = behaviors
            /\ dialogue' = dialogue
      [] c.cmd = "SetCollectable" ->
            /\ \A e \in Entities :
                   IF e \in Named(c.name)
                   THEN /\ (Collect \in behaviors'[e]) = c.flag
                        /\ behaviors'[e] \ {Collect} = behaviors[e] \ {Collect}
                   ELSE behaviors'[e] = behaviors[e]
            /\ is_visible' = is_visible
            /\ dialogue' = dialogue
      [] c.cmd = "StartDialogueIfExists" ->
            /\ dialogue' = IF has_node(asset, c.name)
                           THEN Begin(asset, dialogue, c.name).d ELSE dialogue
            /\ behaviors' = behaviors
            /\ is_visible' = is_visible

C38_AppendableCommands ==
    [][(/\ framePc = "drain" /\ framePc' = "input" /\ Len(script_commands) = 1
        /\ (script_commands[1].cmd = "SetCollectable" => script_commands[1].flag))
           => C38_Effect(script_commands[1])]_vars

\* The runs of wait_for_asset_loading_system since the last load began that
\* called begin_optional(next_dialogue) on the dialogue.
NextDialogueBegins ==
    {i \in DOMAIN levelLoads.waits : levelLoads.waits[i].began}

\* C36: the dialogue queued for a level load is begun at most once per
\* load: between the Load dispatch and the transition out of Loading,
\* begin_optional(next_dialogue) is called at most once on the dialogue,
\* also when the assets are loaded while a map is still pending for several
\* frames; the transition happens only when the assets are loaded and no
\* map is pending, and it resets the load progress.
C36_NextDialogueBegunOnce ==
    /\ Cardinality(NextDialogueBegins) <= 1
    /\ \A i \in DOMAIN levelLoads.waits :
           levelLoads.waits[i].transition
               => /\ levelLoads.waits[i].load_state = "Loaded"
                  /\ levelLoads.waits[i].containers = {}
                  /\ i = Len(levelLoads.waits)
                  /\ to_load.handles = {}
                  /\ to_load.next_dialogue = None

\* The same without the bound on the begins: what holds of the transition.
C36_TransitionWhenLoaded ==
    \A i \in DOMAIN levelLoads.waits :
        levelLoads.waits[i].transition
            => /\ levelLoads.waits[i].load_state = "Loaded"
               /\ levelLoads.waits[i].containers = {}
               /\ i = Len(levelLoads.waits)
               /\ to_load.handles = {}
               /\ to_load.next_dialogue = None

====
